---- MODULE Spec2Model ----
(***************************************************************************)
(* Verification model of the Friday meeting-assistant backend              *)
(* (python-backend/app): the incremental Drive sync of routes/drive.py,    *)
(* the embedding cache of routes/embed.py and the session memory registries*)
(* of chains/chain_utils.py and chains/rag_chain.py.                       *)
(***************************************************************************)
EXTENDS Integers, Sequences, FiniteSets, TLC

\* ------------------------------------------------------------------ bounds
\* Files of the synced folder tree, in the order the listing returns them.
FileSeq == <<"f1", "f2">>
Files == {FileSeq[k] : k \in 1..Len(FileSeq)}
\* Largest number of chunks one version of a document is cut into.
MaxChunks == 2
\* Edits of documents of the folder in one behaviour; a document's
\* modifiedTime is 1 plus the number of its edits.
MaxEdits == 1
\* External calls (Drive, Pinecone, embedding provider, parsers) that fail
\* in one behaviour.
MaxFaults == 1
\* Completed runs in a row over an unchanged source that are counted.
MaxQuiet == 2

\* The vectors the embedding provider answers with are 1..MaxVec.
MaxVec == 2
\* Chat turns held by the session memories, all of them together.
MaxTurns == 15
MaxScopeTurns == 4
MaxLines == 2
MaxStreamChunks == 3
\* Chunker inputs: length of a text, chunk_size, overlap, pages of a PDF and
\* length of the text of one page.
MaxTextLen == 4
MaxChunkSize == 3
MaxOverlap == 2
MaxPages == 2
MaxPageLen == 1
MaxRecords == 201
MaxInput == 11
MaxBlank == 1
MaxAppended == 23
MaxRequestMessages == 3
MaxNow == 122
MaxOtherRequests == 2
MaxOAuthNow == 1202
\* Session ids and vector-store namespaces of the chat requests.
Sessions == {"s", "s:meeting"}
Namespaces == {"documents"}
NoMeeting == ""
ScopeNamespaces == {"documents", "1"}
MeetingIds == {NoMeeting, "1"}

\* ------------------------------------------------------- program constants
\* batch_upsert(vectors, namespace, batch_size=100)
batch_size == 100
\* embedding_cache capacity
MAX_CACHE_SIZE == 1000
\* ConversationBufferWindowMemory(k=10)
K == 10
MAX_MEMORY_MESSAGES == 20
RATE_LIMIT_WINDOW == 60
RATE_LIMIT_MAX == 500
\* timedelta(minutes=10), in seconds
STATE_TTL == 600
\* len(request.text.strip()) < 10
MinTextLen == 10
search_k == 10
top_n == 5

VARIABLES
    \* --- the Drive folder (document source) and the Pinecone namespace
    drive,          \* [Files -> [kind, mt, n]]: what the source holds
    edits,          \* edits of the source so far
    store,          \* [Files -> [0..MaxChunks-1 -> record or None]]
    \* --- sync_drive_folder, one request
    pc,             \* position of the handler
    pos,            \* index into all_files of the current file
    synced, skipped, errors,
    indexed_time,   \* result of get_indexed_modified_time for the file
    chunks,         \* [n, src]: what chunk_text_smart returned for the file
    ci,             \* enumerate(chunks) position of step 6
    vectors,        \* chunk indexes of the vectors list of step 6
    bi,             \* batch_upsert: start index i of the next batch
    result,         \* what the last request returned
    \* --- embedding cache (routes/embed.py)
    embedding_cache,    \* the entries under the keys of TextKeys
    others,             \* number of entries under any other key
    \* --- observation of the get_embedding_internal calls made with Watched
    provCalls,      \* provider invocations they made (counted up to 2)
    rets,           \* the values they returned
    pinN,           \* calls since the first that left the key cached (up to 2)
    pinProv,        \* provider invocations of those calls
    pinRets,        \* the values those calls returned
    last,           \* the latest call: [miss, full, outcome, ret, called]
    \* --- session memories of the chat endpoints
    utils_memories, \* chain_utils.session_memories
    rag_memories,   \* rag_chain.session_memories
    rag_chains,     \* rag_chain.session_chains: the chains with their keys
    searched,       \* the latest answered chat request: <<its resolved
                    \* namespace, the namespace its retriever searched>>
    \* --- observation of the chat requests
    turnSeq,        \* turns appended to the memory since it was registered
    clears,         \* sessions cleared and with no turn answered since
    lastOp,         \* the latest request: <<operation, session, clears[session]>>
    loaded,         \* the history the latest turn's chain was given
    \* --- one call of the chunker
    chunkIn,        \* its arguments: [mime, text, chunk_size, overlap]
    chunkOut,       \* the chunks it returned
    \* --- one POST /chat request seen through its retrieval pipeline
    retrIn,         \* what the external services answer during the request
    retrOut,        \* the response: [status, sources]
    \* --- one attribution of a source
    sanIn,          \* the metadata of the retrieved record
    sanOut,         \* [by, filename, source]: what the caller is given
    \* --- one streaming response
    sse,            \* [endpoint, session, pc, events, chunks, failed]: the
                    \* events sent so far, the chunks consumed so far
    \* --- observation of a run (history, not program state)
    started,        \* a sync request has been made
    faults,         \* external calls that have failed so far
    oplog,          \* what the run did for its files, in order: the files
                    \* it skipped as unsupported or unchanged, its
                    \* downloads, parses, embedding calls, deletes, upserts
    hadStale,       \* files with records of another version at the run's start
    hadCurrent,     \* files with records of their current version at its start
    syncedFiles, skippedFiles,  \* files counted in synced / in skipped
    failedNow,      \* files for which an external call of the run failed
    softFailed,     \* ... for which download, parse or embedding failed
    quiet,          \* completed runs in a row with no change of the source
    failedBefore,   \* files that failed in an earlier run, unchanged since
    prevSynced,     \* files the run before this one counted in synced
    \* --- batch_upsert, one call
    bu,             \* [pc, vectors, i, posted, index]
    \* --- one request to a validating endpoint
    val,            \* [endpoint, input, calls, status]
    \* --- POST /chat on the worker threads
    thr,            \* [Threads -> [pc, session, memory]]
    session_memories,   \* chain_utils.session_memories: session -> object
    memory_objects,     \* the memory objects made so far: their messages
    \* --- POST /ai/stream memory (routes/chat.py)
    conversation_memories,  \* session -> its list of messages, or Absent
    appended,       \* session -> messages appended since it was last absent
    memoryOp,       \* the last memory request and what it returned
    \* --- rate_limit_middleware and the OAuth state store
    now,            \* time.time() / datetime.now(), in seconds
    rate_limit_store,   \* client ip -> <<requests, window_start>>
    through,        \* ip -> the first request's time and the requests let
                    \* through in the ip's window, the status the last
                    \* request got and the status the window called for
    oauth_pending_store,    \* state -> [code_verifier, created_at]
    callbacks       \* the states issued by /oauth/init and not used since,
                    \* and what the last callback got and was due

syncVars == <<pc, pos, synced, skipped, errors, indexed_time, chunks, ci,
              vectors, bi, result>>
obsVars == <<started, faults, oplog, hadStale, hadCurrent, syncedFiles, skippedFiles, failedNow,
             softFailed, quiet, failedBefore, prevSynced>>
cacheObs == <<others, provCalls, rets, pinN, pinProv, pinRets, last>>
chatVars == <<utils_memories, rag_memories, rag_chains, turnSeq, clears,
              lastOp, loaded, searched>>
chunkVars == <<chunkIn, chunkOut>>
retrVars == <<retrIn, retrOut>>
sanVars == <<sanIn, sanOut>>
raceVars == <<thr, session_memories, memory_objects>>
memoryVars == <<conversation_memories, appended, memoryOp>>
rateVars == <<rate_limit_store, through>>
oauthVars == <<oauth_pending_store, callbacks>>
svcVars == <<bu, val, raceVars, memoryVars, now, rateVars, oauthVars>>
reqVars == <<chunkVars, retrVars, sanVars, sse, svcVars>>
vars == <<drive, edits, store, syncVars, embedding_cache, obsVars, cacheObs,
          chatVars, reqVars>>

\* ------------------------------------------------------------------ values
None == <<0, "none">>
NoTime == 0
NoVec == 0
NoResult == [status |-> "none", syncedCount |-> 0, skippedCount |-> 0,
             totalFiles |-> 0, errors |-> <<>>]
NoChunks == [n |-> 0, src |-> "none"]
EmptyDoc == [i \in 0..(MaxChunks - 1) |-> None]

\* What a file of the folder is: its mime type is outside SUPPORTED_MIMES
\* ("unsupported"), its bytes are fewer than 50 ("small"), its extracted
\* text is shorter than 50 characters ("notext"), or it has text ("text").
Kinds == {"unsupported", "small", "notext", "text"}

\* A test that takes every file for a supported one.
is_supported_Any(f) == TRUE
\* is_supported(mime_type, filename)
is_supported(f) == drive[f].kind # "unsupported"

\* Cache keys: get_cache_key is an md5 digest of the first 8000 characters,
\* taken to be injective. The text handed to get_embedding_internal for
\* chunk i of a document is "[File: name] [Type: ext] chunk": 10 characters
\* or more, and distinct for distinct (file, version, chunk, origin).
NKeys == 2 * MaxChunks * (MaxEdits + 1) * Len(FileSeq)
TextKeys == 1..NKeys
ChunkKey(f, v, i, src) ==
    LET fk == CHOOSE k \in 1..Len(FileSeq) : FileSeq[k] = f
        sk == IF src = "text" THEN 0 ELSE 1
    IN  1 + sk + 2 * (i + MaxChunks * ((v - 1) + (MaxEdits + 1) * (fk - 1)))

\* len(embedding_cache)
CacheLen(cache) == Cardinality({k \in TextKeys : cache[k] # NoVec}) + others

\* A text is [head, long]: head names its first 8000 characters (0: fewer
\* than 10 characters once stripped) and long tells whether more follow.
Texts == {[head |-> h, long |-> l] : h \in {0, 1}, l \in BOOLEAN}
Watched == [head |-> 1, long |-> FALSE]
\* text[:8000]
Trimmed(text) == [text EXCEPT !.long = FALSE]
\* get_cache_key(trimmed): the digest of a text of at most 8000 characters
get_cache_key(trimmed) == trimmed.head
\* not text or len(text.strip()) < 10
TooShort(text) == text.head = 0

\* get_embedding_internal(text); outcome is what the provider would answer
\* (ProviderFail: it raises, else a vector) if it is called.
ProviderFail == NoVec

\* A lookup that never finds the key: every call goes to the provider.
get_embedding_internal_NoLookup(cache, text, outcome) ==
    IF TooShort(text)
    THEN [ret |-> NoVec, cache |-> cache, called |-> FALSE]
    ELSE IF outcome = ProviderFail
    THEN [ret |-> NoVec, cache |-> cache, called |-> TRUE]
    ELSE [ret |-> outcome,
          cache |-> IF CacheLen(cache) < MAX_CACHE_SIZE
                    THEN [cache EXCEPT ![get_cache_key(Trimmed(text))] = outcome]
                    ELSE cache,
          called |-> TRUE]

get_embedding_internal(cache, text, outcome) ==
    LET cache_key == get_cache_key(Trimmed(text)) IN
    IF TooShort(text)
    THEN [ret |-> NoVec, cache |-> cache, called |-> FALSE]
    ELSE IF cache[cache_key] # NoVec
    THEN [ret |-> cache[cache_key], cache |-> cache, called |-> FALSE]
    ELSE IF outcome = ProviderFail
    THEN [ret |-> NoVec, cache |-> cache, called |-> TRUE]
    ELSE [ret |-> outcome,
          cache |-> IF CacheLen(cache) < MAX_CACHE_SIZE
                    THEN [cache EXCEPT ![cache_key] = outcome] ELSE cache,
          called |-> TRUE]

\* An endpoint that stores the vector whatever the size of the cache.
get_embedding_NoCapacity(cache, text, outcome) ==
    LET cache_key == get_cache_key(Trimmed(text)) IN
    IF TooShort(text)
    THEN [status |-> 400, ret |-> NoVec, cache |-> cache, called |-> FALSE]
    ELSE IF cache[cache_key] # NoVec
    THEN [status |-> 200, ret |-> cache[cache_key], cache |-> cache,
          called |-> FALSE]
    ELSE IF outcome = ProviderFail
    THEN [status |-> 500, ret |-> NoVec, cache |-> cache, called |-> TRUE]
    ELSE [status |-> 200, ret |-> outcome,
          cache |-> [cache EXCEPT ![cache_key] = outcome], called |-> TRUE]

\* POST /ai/embed: get_embedding(request)
get_embedding(cache, text, outcome) ==
    LET cache_key == get_cache_key(Trimmed(text)) IN
    IF TooShort(text)
    THEN [status |-> 400, ret |-> NoVec, cache |-> cache, called |-> FALSE]
    ELSE IF cache[cache_key] # NoVec
    THEN [status |-> 200, ret |-> cache[cache_key], cache |-> cache,
          called |-> FALSE]
    ELSE IF outcome = ProviderFail
    THEN [status |-> 500, ret |-> NoVec, cache |-> cache, called |-> TRUE]
    ELSE [status |-> 200, ret |-> outcome,
          cache |-> IF CacheLen(cache) < MAX_CACHE_SIZE
                    THEN [cache EXCEPT ![cache_key] = outcome] ELSE cache,
          called |-> TRUE]

NoInput == [mime |-> "none", text |-> <<>>, chunk_size |-> 0, overlap |-> 0]

\* The outcome of a call that returns a sequence or raises
Raised == [ok |-> FALSE, val |-> <<>>]
Returns(v) == [ok |-> TRUE, val |-> v]

\* The query of the request and the lines the expansion model can write
Question == "q"
Lines == {"v1", "v2", ""}
Queries == {Question} \cup (Lines \ {""})
\* No request yet, no response yet
NoRequest == [called |-> FALSE, session |-> "none", generated |-> Raised,
              hits |-> [query \in Queries |-> Raised], rerank |-> "none",
              qa |-> FALSE]
NoResponse == [status |-> 0, sources |-> <<>>]
\* Metadata values: a missing or None field, a value that is no string
Missing == [str |-> FALSE, val |-> <<"None">>]
NotAString == [str |-> FALSE, val |-> <<"1">>]
Str(tokens) == [str |-> TRUE, val |-> tokens]
NoMetadata == [filename |-> Missing, title |-> Missing, name |-> Missing,
               source |-> Missing]
NoAttribution == [by |-> "none", filename |-> <<>>, source |-> Missing]
\* No streaming response under way
NoStream == [endpoint |-> "none", session |-> "none", pc |-> "idle",
             events |-> <<>>, chunks |-> 0, failed |-> FALSE]
NoCall == [miss |-> FALSE, full |-> FALSE, outcome |-> NoVec, ret |-> NoVec,
           called |-> FALSE]

\* A session memory: absent from the registry, or registered with the turns
\* (question and answer) of its chat_memory.messages, oldest first.
Absent == [on |-> FALSE, msgs |-> <<>>]
\* No call of batch_upsert yet
NoBatch == [pc |-> "idle", vectors |-> <<>>, i |-> 0, posted |-> <<>>,
            index |-> {}]
NoValidation == [pc |-> "idle", endpoint |-> "none",
                 input |-> [size |-> 0, blank |-> 0], calls |-> {},
                 status |-> 0]
Threads == {1, 2}
NoObject == 0
NoThread == [pc |-> "idle", session |-> "none", memory |-> NoObject]
\* request.session_id of a request that carries none
NoSession == ""
NoMemoryOp == [op |-> "none", session |-> "none", messages |-> <<>>]
IPs == {"a", "b"}
NoWindow == <<0, 0>>
NoRequests == [ip \in IPs |-> [start |-> 0, passed |-> 0, got |-> 0,
                                expected |-> 0]]
States == {"x", "y"}
NoPending == [code_verifier |-> "", created_at |-> 0]
Verifiers == {"v1", "v2"}
NoCallbacks == [issued |-> [st \in States |-> [on |-> FALSE, at |-> 0,
                                               code_verifier |-> ""]],
                state |-> "none", got |-> "none", expected |-> "none",
                code_verifier |-> ""]
Registries == {"utils", "rag"}

\* Records of a document that carry another modified_time than the source's.
StaleRecords(f) ==
    {i \in 0..(MaxChunks - 1) : store[f][i] # None /\ store[f][i][1] # drive[f].mt}
\* Ids of the records of a document that carry the source's modified_time.
CurrentRecords(f) ==
    {i \in 0..(MaxChunks - 1) : store[f][i] # None /\ store[f][i][1] = drive[f].mt}

Init ==
    /\ drive \in [Files -> {d \in [kind : Kinds, mt : {1}, n : 0..MaxChunks] :
                              (d.kind = "text") <=> (d.n >= 1)}]
    /\ edits = 0
    /\ store = [f \in Files |-> EmptyDoc]
    /\ pc = "idle" /\ pos = 0 /\ synced = 0 /\ skipped = 0 /\ errors = <<>>
    /\ indexed_time = NoTime /\ chunks = NoChunks /\ ci = 0 /\ vectors = {}
    /\ bi = 0 /\ result = NoResult
    /\ embedding_cache = [k \in TextKeys |-> NoVec] /\ others = 0
    /\ provCalls = 0 /\ rets = {} /\ pinN = 0 /\ pinProv = 0 /\ pinRets = {}
    /\ last = NoCall
    /\ utils_memories = [s \in Sessions |-> Absent]
    /\ rag_memories = [s \in Sessions |-> Absent]
    /\ rag_chains = {} /\ searched = <<"", "">>
    /\ turnSeq = [r \in Registries |-> [s \in Sessions |-> 0]]
    /\ clears = {}
    /\ lastOp = <<"none", "none", FALSE>> /\ loaded = <<>>
    /\ chunkIn = NoInput /\ chunkOut = <<>>
    /\ retrIn = NoRequest /\ retrOut = NoResponse
    /\ sanIn = NoMetadata /\ sanOut = NoAttribution
    /\ sse = NoStream
    /\ started = FALSE /\ faults = 0 /\ oplog = <<>> /\ hadStale = {} /\ hadCurrent = {}
    /\ syncedFiles = {}
    /\ skippedFiles = {} /\ failedNow = {} /\ softFailed = {}
    /\ quiet = 0 /\ failedBefore = {} /\ prevSynced = {}
    /\ bu = NoBatch /\ val = NoValidation
    /\ thr = [t \in Threads |-> NoThread]
    /\ session_memories = [s \in Sessions |-> NoObject]
    /\ memory_objects = <<>>
    /\ conversation_memories = [s \in Sessions |-> Absent]
    /\ appended = [s \in Sessions |-> <<>>]
    /\ memoryOp = NoMemoryOp
    /\ now = 0
    /\ rate_limit_store = [ip \in IPs |-> NoWindow]
    /\ through = NoRequests
    /\ oauth_pending_store = [st \in States |-> NoPending]
    /\ callbacks = NoCallbacks

\* ------------------------------------------------- sync_drive_folder steps
file == FileSeq[pos]
locals == <<indexed_time, chunks, ci, vectors, bi>>
source == <<drive, edits, quiet, failedBefore>>
runObs == <<started, hadStale, hadCurrent, prevSynced>>

\* The loop goes on to the next file; the per-file locals are dead.
NextFile ==
    /\ pos' = pos + 1 /\ pc' = "file"
    /\ UNCHANGED result
    /\ indexed_time' = NoTime /\ chunks' = NoChunks /\ ci' = 0
    /\ vectors' = {} /\ bi' = 0

\* A continue that leaves the counter alone.
Skip_Uncounted ==
    /\ skipped' = skipped
    /\ skippedFiles' = skippedFiles \cup {file}
    /\ NextFile
\* skipped += 1; continue
Skip ==
    /\ skipped' = skipped + 1
    /\ skippedFiles' = skippedFiles \cup {file}
    /\ NextFile

\* A per-file handler that lets the exception through to the outer handler,
\* which answers HTTP 500.
HandleFileError_Propagates(msg) ==
    /\ pc' = "idle"
    /\ result' = [NoResult EXCEPT !.status = "http500"]
    /\ UNCHANGED <<pos, skipped, skippedFiles, errors, locals>>

\* except Exception as file_error: errors.append({file, error}); skipped += 1
HandleFileError(msg) ==
    /\ errors' = Append(errors, [file |-> file, error |-> msg])
    /\ Skip

\* The handler stays with the current file and moves to step p.
Goto(p) ==
    /\ pc' = p
    /\ UNCHANGED <<pos, skipped, skippedFiles, result>>

\* Whether an external call succeeds: it may fail while faults remain.
Answers == IF faults < MaxFaults THEN BOOLEAN ELSE {TRUE}

\* Observation: whether an external call made for the current file failed.
Outcome(ok, stage) ==
    IF ok THEN UNCHANGED <<faults, failedNow, softFailed>>
    ELSE /\ faults' = faults + 1
         /\ failedNow' = failedNow \cup {file}
         /\ softFailed' = IF stage \in {"download", "parse", "embed"}
                          THEN softFailed \cup {file} ELSE softFailed

\* all_files = await list_files_recursive(...) succeeds
ListFiles ==
    /\ pc = "idle"
    /\ pc' = "file" /\ pos' = 1
    /\ synced' = 0 /\ skipped' = 0 /\ errors' = <<>>
    /\ result' = NoResult
    /\ started' = TRUE /\ oplog' = <<>>
    /\ prevSynced' = IF result.status = "summary" THEN syncedFiles ELSE {}
    /\ hadStale' = {f \in Files : StaleRecords(f) # {}}
    /\ hadCurrent' = {f \in Files : CurrentRecords(f) # {}}
    /\ syncedFiles' = {} /\ skippedFiles' = {}
    /\ failedNow' = {} /\ softFailed' = {}
    /\ UNCHANGED <<store, embedding_cache, locals, source, faults>>
    /\ UNCHANGED <<cacheObs, chatVars, reqVars>>

\* list_files_recursive raises: the outer handler answers HTTP 500
ListFilesFail ==
    /\ pc = "idle" /\ faults < MaxFaults
    /\ faults' = faults + 1
    /\ result' = [NoResult EXCEPT !.status = "http500"]
    /\ started' = TRUE /\ quiet' = 0 /\ prevSynced' = {}
    /\ oplog' = <<>> /\ hadStale' = {} /\ hadCurrent' = {} /\ syncedFiles' = {}
    /\ skippedFiles' = {}
    /\ failedNow' = {} /\ softFailed' = {}
    /\ UNCHANGED <<drive, edits, failedBefore, store, embedding_cache, pc, pos,
                   synced, skipped, errors, locals>>
    /\ UNCHANGED <<cacheObs, chatVars, reqVars>>

\* if not is_supported(mime_type, file_name): skipped += 1; continue
SkipUnsupported ==
    /\ pc = "file" /\ pos <= Len(FileSeq)
    /\ ~is_supported(file)
    /\ Skip
    /\ oplog' = Append(oplog, <<"unsupported", file>>)
    /\ UNCHANGED <<store, embedding_cache, synced, errors,
                   syncedFiles, faults, failedNow, softFailed, source,
                   runObs>>
    /\ UNCHANGED <<cacheObs, chatVars, reqVars>>

\* get_indexed_modified_time: fetch of record {meeting}_{file}_0; any failure
\* of the fetch is swallowed and answers None.
get_indexed_modified_time(f, ok) ==
    IF ok /\ store[f][0] # None THEN store[f][0][1] ELSE NoTime

\* Step 2: incremental check
Probe ==
    /\ pc = "file" /\ pos <= Len(FileSeq)
    /\ is_supported(file)
    /\ \E ok \in Answers :
        LET t == get_indexed_modified_time(file, ok) IN
        /\ Outcome(ok, "probe")
        /\ IF t # NoTime /\ t = drive[file].mt
           THEN Skip /\ oplog' = Append(oplog, <<"unchanged", file>>)
           ELSE /\ Goto(IF t # NoTime THEN "delete" ELSE "download")
                /\ indexed_time' = t
                /\ UNCHANGED <<chunks, ci, vectors, bi, oplog>>
    /\ UNCHANGED <<store, embedding_cache, synced, errors,
                   syncedFiles, source, runObs>>
    /\ UNCHANGED <<cacheObs, chatVars, reqVars>>

\* delete_file_vectors: filtered delete by file_id; a failure is swallowed.
delete_file_vectors(f, ok) ==
    IF ok THEN [store EXCEPT ![f] = EmptyDoc] ELSE store

\* if indexed_time: await delete_file_vectors(file_id, namespace)
DeleteOld ==
    /\ pc = "delete"
    /\ \E ok \in Answers :
        /\ store' = delete_file_vectors(file, ok)
        /\ Outcome(ok, "delete")
    /\ oplog' = Append(oplog, <<"delete", file>>)
    /\ Goto("download")
    /\ UNCHANGED <<embedding_cache, synced, errors, syncedFiles,
                   locals, source, runObs>>
    /\ UNCHANGED <<cacheObs, chatVars, reqVars>>

\* Step 3: download_file; fewer than 50 bytes are skipped
Download ==
    /\ pc = "download"
    /\ \E ok \in Answers :
        /\ Outcome(ok, "download")
        /\ IF ~ok
           THEN HandleFileError("download")
           ELSE /\ UNCHANGED errors
                /\ IF drive[file].kind = "small"
                   THEN Skip
                   ELSE Goto("parse") /\ UNCHANGED locals
    /\ oplog' = Append(oplog, <<"download", file>>)
    /\ UNCHANGED <<store, embedding_cache, synced,
                   syncedFiles, source, runObs>>
    /\ UNCHANGED <<cacheObs, chatVars, reqVars>>

\* parse_content never raises: a parser failure comes back as the text
\* "[... failed: message]", which is shorter than 50 characters ("short") or
\* not ("long"). chunk_text_smart cuts such a text into one chunk.
ParseOutcomes ==
    IF faults < MaxFaults THEN {"ok", "short", "long"} ELSE {"ok"}
parse_content(f, outcome) ==
    IF outcome = "ok"
    THEN [n |-> drive[f].n, src |-> "text"]
    ELSE [n |-> IF outcome = "long" THEN 1 ELSE 0, src |-> "parse_error"]

\* Step 4 and 5: parse, viability threshold, chunk
Parse ==
    /\ pc = "parse"
    /\ \E outcome \in ParseOutcomes :
        LET c == parse_content(file, outcome) IN
        /\ Outcome(outcome = "ok", "parse")
        /\ IF c.n = 0
           THEN Skip
           ELSE /\ Goto("embed")
                /\ chunks' = c /\ ci' = 0 /\ vectors' = {}
                /\ UNCHANGED <<indexed_time, bi>>
    /\ oplog' = Append(oplog, <<"parse", file>>)
    /\ UNCHANGED <<store, embedding_cache, synced, errors,
                   syncedFiles, source, runObs>>
    /\ UNCHANGED <<cacheObs, chatVars, reqVars>>

\* Step 6: one iteration of `for i, chunk_data in enumerate(chunks)`; after
\* the last one, `if vectors: ... else: skipped += 1`.
ProviderOutcomes ==
    IF faults < MaxFaults THEN {ProviderFail, 1} ELSE {1}
EmbedChunk ==
    /\ pc = "embed" /\ ci < chunks.n
    /\ \E outcome \in ProviderOutcomes :
        LET text == [head |-> ChunkKey(file, drive[file].mt, ci, chunks.src),
                     long |-> FALSE]
            r == get_embedding_internal(embedding_cache, text, outcome)
            vs == IF r.ret = NoVec THEN vectors ELSE vectors \cup {ci}
        IN
        /\ embedding_cache' = r.cache
        /\ Outcome(r.ret # NoVec, "embed")
        /\ IF ci + 1 = chunks.n /\ vs = {}
           THEN Skip
           ELSE /\ Goto(IF ci + 1 = chunks.n THEN "upsert" ELSE "embed")
                /\ vectors' = vs /\ ci' = ci + 1 /\ bi' = 0
                /\ UNCHANGED <<indexed_time, chunks>>
    /\ oplog' = Append(oplog, <<"embed", file>>)
    /\ UNCHANGED <<store, synced, errors, syncedFiles,
                   source, runObs>>
    /\ UNCHANGED <<cacheObs, chatVars, reqVars>>

\* The vectors list in order, and vectors[i:i + batch_size]
RECURSIVE SortedSeq(_)
SortedSeq(S) ==
    IF S = {} THEN <<>>
    ELSE LET m == CHOOSE x \in S : \A y \in S : x <= y
         IN  <<m>> \o SortedSeq(S \ {m})
\* A slice that leaves out the first record of its range.
Slice_Gapped(l, lo, hi) ==
    SubSeq(l, lo + 2, IF hi < Len(l) THEN hi ELSE Len(l))
\* l[lo:hi]
Slice(l, lo, hi) ==
    SubSeq(l, lo + 1, IF hi < Len(l) THEN hi ELSE Len(l))
Batch(vs, i) ==
    LET b == Slice(SortedSeq(vs), i, i + batch_size)
    IN  {b[k] : k \in 1..Len(b)}

\* len(vectors) when the vector of chunk i is appended
Rank(i, vs) == Cardinality({j \in vs : j < i})

\* An id made of the vector's position in the vectors list.
record_id_ByPosition(i, position) == position
\* "id": f"{request.meetingId}_{file_id}_{i}": the part of the id after
\* the meeting and the file
record_id(i, position) == i

\* The namespace after the upsert of the records of chunks `batch` of f: a
\* record is <<modified_time, origin of the text, chunkIndex>>
upsert(f, batch) ==
    [store EXCEPT ![f] = [id \in 0..(MaxChunks - 1) |->
        IF \E i \in batch : record_id(i, Rank(i, vectors)) = id
        THEN LET i == CHOOSE j \in batch : record_id(j, Rank(j, vectors)) = id
             IN  <<drive[f].mt, chunks.src, i>>
        ELSE @[id]]]

\* Step 7: one iteration of batch_upsert's loop; after the last batch
\* synced += 1. A failed batch raises into the per-file handler.
UpsertBatch ==
    /\ pc = "upsert"
    /\ oplog' = Append(oplog, <<"upsert", file>>)
    /\ \E ok \in Answers :
        /\ Outcome(ok, "upsert")
        /\ IF ~ok
           THEN /\ HandleFileError("upsert")
                /\ UNCHANGED <<store, synced, syncedFiles>>
           ELSE /\ store' = upsert(file, Batch(vectors, bi))
                /\ UNCHANGED errors
                /\ IF bi + batch_size >= Cardinality(vectors)
                   THEN /\ synced' = synced + 1
                        /\ syncedFiles' = syncedFiles \cup {file}
                        /\ NextFile
                        /\ UNCHANGED <<skipped, skippedFiles>>
                   ELSE /\ Goto("upsert")
                        /\ bi' = bi + batch_size
                        /\ UNCHANGED <<synced, syncedFiles, indexed_time,
                                       chunks, ci, vectors>>
    /\ UNCHANGED <<embedding_cache, source, runObs>>
    /\ UNCHANGED <<cacheObs, chatVars, reqVars>>

\* return SyncResult(success=True, ...)
Finish ==
    /\ pc = "file" /\ pos > Len(FileSeq)
    /\ result' = [status |-> "summary", syncedCount |-> synced,
                  skippedCount |-> skipped, totalFiles |-> Len(FileSeq),
                  errors |-> errors]
    /\ pc' = "idle"
    /\ quiet' = IF quiet < MaxQuiet THEN quiet + 1 ELSE quiet
    /\ failedBefore' = failedBefore \cup failedNow
    /\ UNCHANGED <<drive, edits, store, embedding_cache, pos, synced, skipped,
                   errors, locals, oplog, syncedFiles, skippedFiles,
                   faults, failedNow, softFailed, runObs>>
    /\ UNCHANGED <<cacheObs, chatVars, reqVars>>

\* Between two runs the owner edits a document: a new modifiedTime and,
\* for a document with text, a new length.
Modify ==
    /\ pc = "idle" /\ started
    /\ edits < MaxEdits /\ edits' = edits + 1
    /\ \E f \in Files :
        /\ \E n \in 0..MaxChunks :
            /\ (drive[f].kind = "text") <=> (n >= 1)
            /\ drive' = [drive EXCEPT ![f].mt = @ + 1, ![f].n = n]
        /\ failedBefore' = failedBefore \ {f}
    /\ quiet' = 0
    /\ UNCHANGED <<store, embedding_cache, syncVars, oplog, syncedFiles,
                   skippedFiles, faults, failedNow, softFailed, runObs>>
    /\ UNCHANGED <<cacheObs, chatVars, reqVars>>

NextSync ==
    \/ ListFiles \/ ListFilesFail \/ SkipUnsupported \/ Probe \/ DeleteOld
    \/ Download \/ Parse \/ EmbedChunk \/ UpsertBatch \/ Finish \/ Modify

SpecSync == Init /\ [][NextSync]_vars

\* ------------------------------------------------------------ sync claims
Returned == pc = "idle" /\ result.status = "summary"

\* C1: in a run, every upsert for a document that had records of another
\* modified_time at the start of the run comes after a delete for that
\* document issued earlier in the same run.
C1_DeleteBeforeUpsert ==
    \A j \in 1..Len(oplog) :
        (oplog[j][1] = "upsert" /\ oplog[j][2] \in hadStale)
            => \E i \in 1..(j - 1) : oplog[i] = <<"delete", oplog[j][2]>>

\* C2: after a run that re-indexed a changed document, the namespace holds
\* no record of that document at a chunk index at or above the new count.
C2_NoTrailingChunks ==
    Returned =>
        \A f \in syncedFiles \cap hadStale :
            \A i \in 0..(MaxChunks - 1) :
                i >= drive[f].n => store[f][i] = None

\* C3: the second of two runs in a row over an unchanged source returns
\* syncedCount = 0. Stated for the runs that favour the claim most: the
\* first run counted every document with text as synced and no external
\* call of the second run fails.
C3_SecondRunSyncsNothing ==
    (/\ Returned /\ quiet >= 2
     /\ {f \in Files : drive[f].kind = "text"} \subseteq prevSynced
     /\ failedNow = {})
        => result.syncedCount = 0

\* C4: a failure while one document is processed never aborts the run: a
\* run that got past the enumeration returns the summary with every file of
\* the enumeration processed, and HTTP 500 is answered only by a run that
\* touched no document.
C4_FailureNeverAborts ==
    /\ (pc = "idle" /\ started) => result.status \in {"summary", "http500"}
    /\ Returned =>
        /\ syncedFiles \cup skippedFiles = Files
        /\ result.totalFiles = Len(FileSeq)
    /\ result.status = "http500" =>
        /\ syncedFiles \cup skippedFiles = {}
        /\ failedNow = {} /\ oplog = <<>>
C4_Witness ==
    /\ Returned
    /\ Len(result.errors) = 1 /\ result.errors[1].file = FileSeq[1]
    /\ FileSeq[2] \in syncedFiles

\* C5: every document whose download, parse or embedding failed in the run
\* is counted in skippedCount, is named in the errors list and is not
\* counted in syncedCount.
C5_FailedDocsReported ==
    Returned =>
        \A f \in softFailed :
            /\ f \in skippedFiles
            /\ f \notin syncedFiles
            /\ \E k \in 1..Len(result.errors) : result.errors[k].file = f

\* C6: after a run in which every external call succeeded, every document
\* with text that failed in an earlier run and was not edited since has a
\* record of its current version for each of its chunks.
C6_RerunConverges ==
    (Returned /\ failedNow = {}) =>
        \A f \in failedBefore :
            drive[f].kind = "text" =>
                \A i \in 0..(drive[f].n - 1) :
                    store[f][i] = <<drive[f].mt, "text", i>>

\* Ids of the records of the current file that the chunks being indexed
\* wrote in an earlier run: same modified_time, same extracted text.
PriorIds ==
    {id \in 0..(MaxChunks - 1) :
        store[file][id] # None /\ store[file][id][1] = drive[file].mt
                               /\ store[file][id][2] = chunks.src}
Reindexing == pc = "upsert" /\ store' # store /\ PriorIds # {}

C23_UnsupportedNotSkipped ==
    (/\ Returned /\ quiet >= 2
     /\ {f \in Files : drive[f].kind = "text"} \subseteq prevSynced
     /\ failedNow = {})
        => result.skippedCount =
            result.totalFiles - Cardinality({f \in Files : ~is_supported(f)})

\* C25: in every summary syncedCount + skippedCount = totalFiles: every
\* file of the enumeration is counted once, in one of the two counters, and
\* the errors list has no more entries than skippedCount.
C25_CountersAddUp ==
    Returned =>
        /\ result.syncedCount + result.skippedCount = result.totalFiles
        /\ result.syncedCount = Cardinality(syncedFiles)
        /\ result.skippedCount = Cardinality(skippedFiles)
        /\ syncedFiles \cap skippedFiles = {}
        /\ syncedFiles \cup skippedFiles = Files
        /\ Len(result.errors) <= result.skippedCount
C25_Witness ==
    /\ Returned
    /\ result.syncedCount = 1 /\ result.skippedCount = 1
    /\ Len(result.errors) = 1 /\ result.errors[1].file = FileSeq[2]

\* Work the run did for a file: calls issued for it
Work == {"download", "parse", "embed", "delete", "upsert"}

\* C24: for a document of an unsupported type, and for a document the run
\* has classified unchanged, the run issues no download, parse, embedding
\* call, delete or upsert; and the records of a document change only in a
\* step that issues a delete or an upsert for it, so that the records of
\* those documents are the same after the run as before it.
C24_SkippedUntouched ==
    /\ [](\A j \in 1..Len(oplog) :
            (\/ drive[oplog[j][2]].kind = "unsupported"
             \/ \E k \in 1..Len(oplog) : oplog[k] = <<"unchanged", oplog[j][2]>>)
                => oplog[j][1] \notin Work)
    /\ [][\A f \in Files :
            store'[f] # store[f] =>
                \E op \in {"delete", "upsert"} :
                    oplog' = Append(oplog, <<op, f>>)]_vars
C24_Witness ==
    /\ Returned
    /\ oplog = <<<<"unsupported", FileSeq[1]>>, <<"unchanged", FileSeq[2]>>>>
    /\ store[FileSeq[2]][0] # None

\* -------------------------------------------------------- embedding cache
syncState == <<drive, edits, store, syncVars, obsVars>>
Vecs == 1..MaxVec
Cap(n) == IF n < 2 THEN n + 1 ELSE 2

\* Observation of one call: what it found and what it answered.
Observed(text, r, outcome) ==
    [miss |-> ~TooShort(text) /\ embedding_cache[get_cache_key(Trimmed(text))] = NoVec,
     full |-> CacheLen(embedding_cache) >= MAX_CACHE_SIZE,
     outcome |-> IF r.called THEN outcome ELSE NoVec,
     ret |-> r.ret, called |-> r.called]

\* Observation of the get_embedding_internal calls made with Watched.
Watch(text, r) ==
    LET n == IF r.called THEN 1 ELSE 0
        cached == r.cache[get_cache_key(Trimmed(Watched))] # NoVec
    IN
    IF text # Watched
    THEN UNCHANGED <<provCalls, rets, pinN, pinProv, pinRets>>
    ELSE /\ provCalls' = IF r.called THEN Cap(provCalls) ELSE provCalls
         /\ rets' = rets \cup {r.ret}
         /\ IF pinN > 0 \/ cached
            THEN /\ pinN' = Cap(pinN)
                 /\ pinProv' = IF r.called THEN Cap(pinProv) ELSE pinProv
                 /\ pinRets' = pinRets \cup {r.ret}
            ELSE UNCHANGED <<pinN, pinProv, pinRets>>

\* A caller awaits get_embedding_internal(text)
CallInternal ==
    \E text \in Texts, outcome \in {ProviderFail} \cup Vecs :
        LET r == get_embedding_internal(embedding_cache, text, outcome) IN
        /\ embedding_cache' = r.cache
        /\ last' = Observed(text, r, outcome)
        /\ Watch(text, r)
        /\ UNCHANGED <<others, syncState, chatVars, reqVars>>

\* A client posts text to /ai/embed
CallEndpoint ==
    \E text \in Texts, outcome \in {ProviderFail} \cup Vecs :
        LET r == get_embedding(embedding_cache, text, outcome) IN
        /\ embedding_cache' = r.cache
        /\ last' = Observed(text, r, outcome)
        /\ UNCHANGED <<others, provCalls, rets, pinN, pinProv, pinRets,
                       syncState, chatVars, reqVars>>

\* Either of the two with a text of 10 characters or more under a key that
\* is in the cache for no text yet: the provider answers and the vector is
\* stored if len(embedding_cache) < MAX_CACHE_SIZE.
CallFresh ==
    /\ others' = IF CacheLen(embedding_cache) < MAX_CACHE_SIZE
                 THEN others + 1 ELSE others
    /\ last' = [miss |-> TRUE, full |-> CacheLen(embedding_cache) >= MAX_CACHE_SIZE,
                outcome |-> 1, ret |-> 1, called |-> TRUE]
    /\ UNCHANGED <<embedding_cache, provCalls, rets, pinN, pinProv, pinRets,
                   syncState, chatVars, reqVars>>

NextCache == CallInternal \/ CallEndpoint \/ CallFresh

\* The process with no sync request made: the folder's content plays no part.
InitNoSync ==
    /\ Init
    /\ \A f \in Files : drive[f].kind = "unsupported"

SpecCache == InitNoSync /\ [][NextCache]_vars

\* ----------------------------------------------------------- cache claims
\* C9 as stated: the get_embedding_internal calls made with one text, at
\* any point of any sequence of cache operations, all return the same
\* vector and invoke the provider at most once in total.
C9_Idempotent ==
    Cardinality(rets) <= 1 /\ provCalls <= 1

\* C9 amended: from the first get_embedding_internal call that leaves the
\* text's key in the cache on, the calls made with that text all return the
\* same vector and invoke the provider at most once in total.
C9_IdempotentOnceCached ==
    pinN > 0 => (Cardinality(pinRets) = 1 /\ pinProv <= 1)
C9_Witness ==
    pinN = 2 /\ pinProv = 1 /\ NoVec \notin pinRets

\* A step keeps every stored entry as it is and adds none to a full cache.
NoEvict ==
    /\ \A k \in TextKeys :
        embedding_cache[k] # NoVec => embedding_cache'[k] = embedding_cache[k]
    /\ others' >= others
    /\ CacheLen(embedding_cache) >= MAX_CACHE_SIZE =>
        (embedding_cache' = embedding_cache /\ others' = others)

\* C10: the cache never holds more than MAX_CACHE_SIZE entries; a miss on a
\* full cache calls the provider and returns what it answered; no call,
\* through get_embedding_internal or through /ai/embed, removes or changes
\* an entry, nor adds one to a full cache.
C10_CacheBounded ==
    /\ [](/\ CacheLen(embedding_cache) <= MAX_CACHE_SIZE
          /\ (last.full /\ last.miss) =>
                (last.called /\ last.ret = last.outcome))
    /\ [][NoEvict]_vars
C10_Witness ==
    /\ CacheLen(embedding_cache) = MAX_CACHE_SIZE
    /\ embedding_cache[get_cache_key(Watched)] = NoVec
    /\ last.full /\ last.miss /\ last.called /\ last.ret \in Vecs
    /\ provCalls = 2

\* ---------------------------------------------------------- chat sessions
notChat == <<drive, edits, store, syncVars, obsVars, embedding_cache, cacheObs,
             reqVars>>

\* chain_utils.get_memory / rag_chain.get_memory: the registry after the
\* call, which registers a new ConversationBufferWindowMemory(k=10) for a
\* session id that has none.
utils_get_memory(memories, s) ==
    IF memories[s].on THEN memories
    ELSE [memories EXCEPT ![s] = [on |-> TRUE, msgs |-> <<>>]]
rag_get_memory(memories, s) ==
    IF memories[s].on THEN memories
    ELSE [memories EXCEPT ![s] = [on |-> TRUE, msgs |-> <<>>]]

\* What the chain reads from its memory (load_memory_variables): the last
\* k turns of chat_memory.messages.
load_memory_variables(m) ==
    IF Len(m.msgs) <= K THEN m.msgs
    ELSE SubSeq(m.msgs, Len(m.msgs) - K + 1, Len(m.msgs))
\* What the chain writes when it has answered (save_context): the turn is
\* appended to chat_memory.messages.
save_context(m, turn) == [m EXCEPT !.msgs = Append(@, turn)]

\* chain_utils.clear_session_memory(session_id): the registry after it
utils_clear_session_memory(memories, s) ==
    IF memories[s].on THEN [memories EXCEPT ![s] = Absent] ELSE memories

\* get_session_history and get_all_sessions of the two modules
utils_get_session_history(s) ==
    IF utils_memories[s].on THEN utils_memories[s].msgs ELSE <<>>
rag_get_session_history(s) ==
    IF rag_memories[s].on THEN rag_memories[s].msgs ELSE <<>>
utils_get_all_sessions == {s \in Sessions : utils_memories[s].on}
rag_get_all_sessions == {s \in Sessions : rag_memories[s].on}

\* GET /chat/history/{session_id} and GET /chat/sessions
get_chat_history(s) == rag_get_session_history(s)
list_sessions == rag_get_all_sessions

RECURSIVE SumOver(_, _)
SumOver(f, S) ==
    IF S = {} THEN 0
    ELSE LET x == CHOOSE y \in S : TRUE IN f[x] + SumOver(f, S \ {x})
Turns == SumOver(turnSeq["utils"], Sessions) + SumOver(turnSeq["rag"], Sessions)

\* namespace = request.namespace; if request.meeting_id: namespace =
\* f"meeting:{request.meeting_id}"
resolved_namespace(request_namespace, meeting_id) ==
    IF meeting_id # NoMeeting THEN "meeting:" \o meeting_id
    ELSE request_namespace

\* chain_key = f"{session_id}:{namespace}"
chain_key(session_id, ns) == session_id \o ":" \o ns

\* The chain get_rag_chain(session_id, namespace) returns: the one cached
\* under the key, else a new one whose retriever searches `ns` and whose
\* memory is the session's.
get_rag_chain(session_id, ns) ==
    IF \E c \in rag_chains : c.key = chain_key(session_id, ns)
    THEN CHOOSE c \in rag_chains : c.key = chain_key(session_id, ns)
    ELSE [key |-> chain_key(session_id, ns), namespace |-> ns,
          session |-> session_id]

\* POST /chat answered: query_with_advanced_memory builds a chain over a
\* new retriever of the resolved namespace and over
\* chain_utils.get_memory(session_id), and invokes it.
ChatOver(request_namespaces, meeting_ids, cap) ==
    /\ Turns < cap
    /\ \E s \in Sessions, rns \in request_namespaces, mid \in meeting_ids :
        LET ns == resolved_namespace(rns, mid)
            memories == utils_get_memory(utils_memories, s)
            turn == turnSeq["utils"][s] + 1
        IN
        /\ searched' = <<ns, ns>>
        /\ loaded' = load_memory_variables(memories[s])
        /\ utils_memories' = [memories EXCEPT ![s] = save_context(@, turn)]
        /\ turnSeq' = [turnSeq EXCEPT !["utils"][s] = turn]
        /\ lastOp' = <<"chat", s, s \in clears>>
        /\ clears' = clears \ {s}
    /\ UNCHANGED <<rag_memories, rag_chains, notChat>>
Chat == ChatOver(Namespaces, {NoMeeting}, MaxTurns)

\* POST /chat answers HTTP 500: get_advanced_retriever raises, before the
\* memory is looked up, or the chain raises, before it saves the turn.
ChatFail ==
    /\ \E s \in Sessions, stage \in {"retriever", "invoke"} :
        LET memories == IF stage = "retriever" THEN utils_memories
                        ELSE utils_get_memory(utils_memories, s)
        IN
        /\ loaded' = load_memory_variables(memories[s])
        /\ utils_memories' = memories
        /\ lastOp' = <<"chat_fail", s, s \in clears>>
    /\ UNCHANGED <<rag_memories, rag_chains, searched, turnSeq, clears,
                   notChat>>

\* POST /chat/stream answered: get_rag_chain returns the chain cached under
\* the key or builds one over rag_chain.get_memory(session_id) and caches
\* it; the chain searches its retriever's namespace, streams its answer and
\* saves the turn in its memory.
StreamOver(request_namespaces, meeting_ids, cap) ==
    /\ Turns < cap
    /\ \E s \in Sessions, rns \in request_namespaces, mid \in meeting_ids :
        LET ns == resolved_namespace(rns, mid)
            chain == get_rag_chain(s, ns)
            memories == IF chain \in rag_chains THEN rag_memories
                        ELSE rag_get_memory(rag_memories, s)
            turn == turnSeq["rag"][chain.session] + 1
        IN
        /\ rag_chains' = rag_chains \cup {chain}
        /\ searched' = <<ns, chain.namespace>>
        /\ loaded' = load_memory_variables(memories[chain.session])
        /\ rag_memories' =
            [memories EXCEPT ![chain.session] = save_context(@, turn)]
        /\ turnSeq' = [turnSeq EXCEPT !["rag"][chain.session] = turn]
        /\ lastOp' = <<"stream", s, s \in clears>>
        /\ clears' = clears \ {s}
    /\ UNCHANGED <<utils_memories, notChat>>
Stream == StreamOver(Namespaces, {NoMeeting}, MaxTurns)

\* POST /chat/stream ends with an error event: get_vectorstore raises,
\* before the memory is looked up, or the cached chain raises while it
\* streams, before it saves the turn.
StreamFail ==
    /\ \E s \in Sessions, ns \in Namespaces, stage \in {"vectorstore", "astream"} :
        LET chain == get_rag_chain(s, ns) IN
        /\ stage = "vectorstore" => chain \notin rag_chains
        /\ LET memories == IF stage = "vectorstore" \/ chain \in rag_chains
                           THEN rag_memories
                           ELSE rag_get_memory(rag_memories, s)
           IN
           /\ rag_chains' = IF stage = "vectorstore" THEN rag_chains
                            ELSE rag_chains \cup {chain}
           /\ loaded' = load_memory_variables(memories[chain.session])
           /\ rag_memories' = memories
           /\ lastOp' = <<"stream_fail", s, s \in clears>>
    /\ UNCHANGED <<utils_memories, searched, turnSeq, clears, notChat>>

\* DELETE /chat/history/{session_id}: clear_chat_history calls
\* chain_utils.clear_session_memory(session_id).
ClearHistory ==
    /\ \E s \in Sessions :
        /\ utils_memories' = utils_clear_session_memory(utils_memories, s)
        /\ turnSeq' = [turnSeq EXCEPT !["utils"][s] = 0]
        /\ clears' = clears \cup {s}
        /\ lastOp' = <<"clear", s, TRUE>>
    /\ loaded' = <<>>
    /\ UNCHANGED <<rag_memories, rag_chains, searched, notChat>>

NextChat == Chat \/ ChatFail \/ Stream \/ StreamFail \/ ClearHistory

SpecChat == InitNoSync /\ [][NextChat]_vars

\* ------------------------------------------------------------ chat claims
\* C7: after DELETE /chat/history/{session_id} the session is not among the
\* active sessions and its history is empty, and the next turn answered on
\* that session id, through /chat or through /chat/stream, is given an
\* empty history.
C7_ClearRemovesSession ==
    \A s \in Sessions :
        /\ lastOp = <<"clear", s, TRUE>> =>
            /\ s \notin list_sessions /\ s \notin utils_get_all_sessions
            /\ get_chat_history(s) = <<>>
        /\ lastOp \in {<<"chat", s, TRUE>>, <<"stream", s, TRUE>>} =>
            loaded = <<>>

\* C27: after a /chat request for a session has been answered,
\* GET /chat/sessions lists the session and GET /chat/history returns a
\* history for it that is not empty and has at least the turns that /chat
\* has recorded for the session.
C27_ChatTurnVisible ==
    \A s \in Sessions :
        (lastOp[1] = "chat" /\ lastOp[2] = s) =>
            /\ s \in list_sessions
            /\ Len(get_chat_history(s)) >= 1
            /\ Len(get_chat_history(s)) >= Len(utils_get_session_history(s))

\* C8: once K + 5 turns have been appended to a session's memory, the
\* history returned for the session is the K most recent turns, oldest first.
C8_SessionWindow ==
    \A s \in Sessions :
        /\ turnSeq["rag"][s] = K + 5 =>
            rag_get_session_history(s) = [i \in 1..K |-> 5 + i]
        /\ turnSeq["utils"][s] = K + 5 =>
            utils_get_session_history(s) = [i \in 1..K |-> 5 + i]

\* ------------------------------------------------------ namespace scoping
\* Chat requests of any namespace and meeting: POST /chat and
\* POST /chat/stream with and without a meeting_id.
ScopedChat == ChatOver(ScopeNamespaces, MeetingIds, MaxScopeTurns)
ScopedStream == StreamOver(ScopeNamespaces, MeetingIds, MaxScopeTurns)
NextScope == ScopedChat \/ ScopedStream
SpecScope == InitNoSync /\ [][NextScope]_vars

\* C12: the similarity search of an answered chat request reads the
\* request's resolved namespace and no other.
C12_OneNamespace == searched[1] = searched[2]

\* ---------------------------------------------------------------- chunker
\* A text is a sequence of characters; "[PAGE k]" stands for the page marker
\* that parse_pdf_with_pages writes, which re.split takes as one unit.
Chars == {"a", " ", "\n", "."}
Whitespace == {" ", "\n"}
MarkerOf == [k \in 1..(MaxPages + 1) |->
                CASE k = 1 -> "[PAGE 1]" [] k = 2 -> "[PAGE 2]"
                  [] k = 3 -> "[PAGE 3]" [] k = 4 -> "[PAGE 4]"
                  [] OTHER -> "[PAGE n]"]
Markers == {MarkerOf[k] : k \in 1..(MaxPages + 1)}

RECURSIVE SeqsUpTo(_, _)
SeqsUpTo(S, n) ==
    IF n = 0 THEN {<<>>}
    ELSE LET shorter == SeqsUpTo(S, n - 1)
         IN  shorter \cup {Append(t, c) : t \in {u \in shorter : Len(u) = n - 1}, c \in S}

\* str.strip()
RECURSIVE lstrip(_)
lstrip(t) == IF t # <<>> /\ Head(t) \in Whitespace THEN lstrip(Tail(t)) ELSE t
RECURSIVE rstrip(_)
rstrip(t) ==
    IF t # <<>> /\ t[Len(t)] \in Whitespace
    THEN rstrip(SubSeq(t, 1, Len(t) - 1)) ELSE t
strip(t) == rstrip(lstrip(t))

\* str.split(sep) for a separator that is not empty
RECURSIVE SplitFrom(_, _, _, _)
SplitFrom(t, sep, i, acc) ==
    IF i > Len(t) THEN <<acc>>
    ELSE IF i + Len(sep) - 1 <= Len(t) /\ SubSeq(t, i, i + Len(sep) - 1) = sep
    THEN <<acc>> \o SplitFrom(t, sep, i + Len(sep), <<>>)
    ELSE SplitFrom(t, sep, i + 1, Append(acc, t[i]))

\* split_with_separator(text, sep): text.split(sep), or list(text)
split_with_separator(t, sep) ==
    IF sep # <<>> THEN SplitFrom(t, sep, 1, <<>>)
    ELSE [k \in 1..Len(t) |-> <<t[k]>>]

\* re.split(r'\[PAGE \d+\]', text)
RECURSIVE SplitPages(_, _, _)
SplitPages(t, i, acc) ==
    IF i > Len(t) THEN <<acc>>
    ELSE IF t[i] \in Markers THEN <<acc>> \o SplitPages(t, i + 1, <<>>)
    ELSE SplitPages(t, i + 1, Append(acc, t[i]))

\* Python slices s[-n:] and s[n:]
LastChars(t, n) ==
    IF n = 0 \/ n >= Len(t) THEN t ELSE SubSeq(t, Len(t) - n + 1, Len(t))
SliceFrom(t, n) ==
    IF n >= 0 THEN SubSeq(t, n + 1, Len(t)) ELSE LastChars(t, 0 - n)

separators == << <<"\n", "\n">>, <<"\n">>, <<".", " ">>, <<" ">>, <<>> >>

AllWithin(cs, chunk_size) ==
    \A k \in 1..Len(cs) : Len(cs[k]) <= chunk_size

\* The inner loop `for part in parts` of recursive_chunk from part k on,
\* and the `if current_chunk: final_chunks.append(current_chunk)` after it.
RECURSIVE Pack(_, _, _, _, _, _, _, _)
Pack(parts, k, current_chunk, final_chunks, sep, chunk_size, overlap, finest) ==
    IF k > Len(parts)
    THEN IF current_chunk # <<>> THEN Append(final_chunks, current_chunk)
         ELSE final_chunks
    ELSE LET part == parts[k]
             test_chunk == current_chunk
                             \o (IF current_chunk # <<>> THEN sep ELSE <<>>) \o part
         IN
         IF Len(test_chunk) <= chunk_size
         THEN Pack(parts, k + 1, test_chunk, final_chunks, sep, chunk_size,
                   overlap, finest)
         ELSE IF current_chunk # <<>>
         THEN Pack(parts, k + 1,
                   IF Len(current_chunk) > overlap
                   THEN LastChars(current_chunk, overlap) \o sep \o part
                   ELSE part,
                   Append(final_chunks, current_chunk), sep, chunk_size,
                   overlap, finest)
         ELSE IF ~finest THEN final_chunks
         ELSE Pack(parts, k + 1, SliceFrom(part, chunk_size - overlap),
                   Append(final_chunks, SubSeq(part, 1, chunk_size)), sep,
                   chunk_size, overlap, finest)

\* The fallback `while i < len(text)` of recursive_chunk
RECURSIVE SimpleSplit(_, _, _, _)
SimpleSplit(text, i, chunk_size, overlap) ==
    IF i >= Len(text) THEN <<>>
    ELSE LET end == IF i + chunk_size < Len(text) THEN i + chunk_size
                    ELSE Len(text)
         IN  <<SubSeq(text, i + 1, end)>>
                \o SimpleSplit(text, IF end < Len(text) THEN end - overlap ELSE end,
                               chunk_size, overlap)

\* The loop `for sep in separators` from separator j on without the test
\* that every chunk is within chunk_size.
RECURSIVE TrySeparators_Unchecked(_, _, _, _)
TrySeparators_Unchecked(text, j, chunk_size, overlap) ==
    IF j > Len(separators) THEN <<>>
    ELSE LET sep == separators[j]
             final_chunks == Pack(split_with_separator(text, sep), 1, <<>>, <<>>,
                                  sep, chunk_size, overlap, j = Len(separators))
         IN  IF final_chunks # <<>> THEN final_chunks
             ELSE TrySeparators_Unchecked(text, j + 1, chunk_size, overlap)

\* The loop `for sep in separators` of recursive_chunk from separator j on
RECURSIVE TrySeparators(_, _, _, _)
TrySeparators(text, j, chunk_size, overlap) ==
    IF j > Len(separators) THEN <<>>
    ELSE LET sep == separators[j]
             final_chunks == Pack(split_with_separator(text, sep), 1, <<>>, <<>>,
                                  sep, chunk_size, overlap, j = Len(separators))
         IN  IF final_chunks # <<>> /\ AllWithin(final_chunks, chunk_size)
             THEN final_chunks
             ELSE TrySeparators(text, j + 1, chunk_size, overlap)

\* recursive_chunk(text, chunk_size, overlap)
recursive_chunk(text, chunk_size, overlap) ==
    LET final_chunks == TrySeparators(text, 1, chunk_size, overlap) IN
    IF final_chunks # <<>> THEN final_chunks
    ELSE SimpleSplit(text, 0, chunk_size, overlap)

NoMeta == [kind |-> "none", n |-> 0]
Tagged(texts, meta) == [k \in 1..Len(texts) |-> [text |-> texts[k], metadata |-> meta]]

\* The rows of the tabular path and the pages of the PDF path from index k on
RECURSIVE RowChunks(_, _)
RowChunks(lines, k) ==
    IF k > Len(lines) THEN <<>>
    ELSE (IF strip(lines[k]) # <<>>
          THEN <<[text |-> strip(lines[k]),
                  metadata |-> [kind |-> "row_index", n |-> k - 1]]>>
          ELSE <<>>) \o RowChunks(lines, k + 1)
RECURSIVE PageChunks(_, _, _, _)
PageChunks(pages, page_num, chunk_size, overlap) ==
    IF page_num > Len(pages) THEN <<>>
    ELSE (IF strip(pages[page_num]) # <<>>
          THEN Tagged(recursive_chunk(strip(pages[page_num]), chunk_size, overlap),
                      [kind |-> "page_number", n |-> page_num])
          ELSE <<>>) \o PageChunks(pages, page_num + 1, chunk_size, overlap)

\* chunk_text_smart(text, mime_type, chunk_size, overlap); mime is "csv"
\* (a mime type with "spreadsheet" or "csv" in it), "pdf" or "text".
chunk_text_smart(text, mime, chunk_size, overlap) ==
    IF mime = "csv"
    THEN RowChunks(split_with_separator(strip(text), <<"\n">>), 1)
    ELSE IF mime = "pdf" /\ \E k \in 1..Len(text) : text[k] \in Markers
    THEN PageChunks(SplitPages(text, 1, <<>>), 1, chunk_size, overlap)
    ELSE Tagged(recursive_chunk(text, chunk_size, overlap), NoMeta)

\* parse_pdf_with_pages: "[PAGE n]\n" and the text of every page that has
\* text, joined by "\n\n"
RECURSIVE text_parts(_, _)
text_parts(pages, page_num) ==
    IF page_num > Len(pages) THEN <<>>
    ELSE (IF strip(pages[page_num]) # <<>>
          THEN << <<MarkerOf[page_num], "\n">> \o pages[page_num] >>
          ELSE <<>>) \o text_parts(pages, page_num + 1)
RECURSIVE Join(_, _)
Join(parts, sep) ==
    IF parts = <<>> THEN <<>>
    ELSE IF Len(parts) = 1 THEN parts[1]
    ELSE parts[1] \o sep \o Join(Tail(parts), sep)
parse_pdf_with_pages(pages) == Join(text_parts(pages, 1), <<"\n", "\n">>)

\* The arguments of one call: any text for the tabular and the generic
\* path, the text of a parsed PDF for the page-oriented path.
PageTexts == SeqsUpTo({"a", " "}, MaxPageLen)
PdfDocs == UNION {[1..n -> PageTexts] : n \in 1..MaxPages}
ChunkInputs ==
    {[mime |-> m, text |-> t, chunk_size |-> cs, overlap |-> o] :
        m \in {"csv", "text"}, t \in SeqsUpTo(Chars, MaxTextLen),
        cs \in 1..MaxChunkSize, o \in 0..MaxOverlap}
    \cup
    {[mime |-> "pdf", text |-> parse_pdf_with_pages(d), chunk_size |-> cs,
      overlap |-> o] :
        d \in PdfDocs, cs \in 1..MaxChunkSize, o \in 0..MaxOverlap}

\* A caller chunks one text
ChunkCall ==
    /\ chunkIn = NoInput
    /\ \E input \in ChunkInputs :
        /\ chunkIn' = input
        /\ chunkOut' = chunk_text_smart(input.text, input.mime,
                                        input.chunk_size, input.overlap)
    /\ UNCHANGED <<drive, edits, store, syncVars, obsVars, embedding_cache,
                   cacheObs, chatVars, retrVars, sanVars, sse, svcVars>>

NextChunk == ChunkCall

SpecChunk == InitNoSync /\ [][NextChunk]_vars

\* ---------------------------------------------------------- chunker claims
Called == chunkIn # NoInput
ChunkTexts == [k \in 1..Len(chunkOut) |-> chunkOut[k].text]

\* C13: every chunk of the generic and of the page-oriented path is at most
\* chunk_size characters long; only a row of a tabular format may be longer.
C13_ChunkSizeBound ==
    (Called /\ chunkIn.mime # "csv") =>
        \A k \in 1..Len(chunkOut) : Len(chunkOut[k].text) <= chunkIn.chunk_size
C13_Witness ==
    /\ chunkIn.mime = "text" /\ chunkIn.chunk_size = 2 /\ chunkIn.overlap = 1
    /\ Len(chunkIn.text) > chunkIn.chunk_size
    /\ Len(chunkOut) >= 2
    /\ \A k \in 1..Len(chunkOut) : Len(chunkOut[k].text) = chunkIn.chunk_size

\* The texts obtained from chunks k.. by removing from each a prefix that
\* is also a suffix of the chunk before it, appended to acc.
RECURSIVE Rebuilds(_, _, _)
Rebuilds(cs, k, acc) ==
    IF k > Len(cs) THEN {acc}
    ELSE LET shorter == IF Len(cs[k]) < Len(cs[k - 1]) THEN Len(cs[k])
                        ELSE Len(cs[k - 1])
             shared == {n \in 0..shorter :
                          SubSeq(cs[k], 1, n) =
                              SubSeq(cs[k - 1], Len(cs[k - 1]) - n + 1, Len(cs[k - 1]))}
         IN  UNION {Rebuilds(cs, k + 1, acc \o SubSeq(cs[k], n + 1, Len(cs[k]))) :
                        n \in shared}

\* C14: the chunks of a text on the generic path, each after the first
\* without the overlap it shares with the chunk before it, concatenate to
\* the text.
C14_RoundTrip ==
    (Called /\ chunkIn.mime = "text") =>
        IF chunkOut = <<>> THEN chunkIn.text = <<>>
        ELSE chunkIn.text \in Rebuilds(ChunkTexts, 2, ChunkTexts[1])

\* C15: the chunks of a PDF text with page markers are tagged with the
\* numbers of the markers that precede their text: the page numbers of the
\* chunks are the numbers of the markers in the text.
C15_PageTags ==
    (Called /\ chunkIn.mime = "pdf" /\ chunkIn.text # <<>>) =>
        {chunkOut[k].metadata.n : k \in 1..Len(chunkOut)} =
            {m \in 1..(MaxPages + 1) :
                \E i \in 1..Len(chunkIn.text) : chunkIn.text[i] = MarkerOf[m]}

\* C16: the chunker returns no chunk for a text that is empty or has only
\* whitespace in it, whatever the format.
C16_BlankGivesNoChunks ==
    (Called /\ strip(chunkIn.text) = <<>>) => chunkOut = <<>>

\* ----------------------------------------------------- retrieval pipeline
\* What the expansion model, the vector store and the re-ranker can answer
\* during one request: the store's hits are record numbers in the order of
\* their similarity to the query.
Generations == {Raised} \cup {Returns(l) : l \in SeqsUpTo(Lines, MaxLines)}
SearchOutcomes ==
    {Raised, Returns(<<>>), Returns(<<1, 2, 3>>), Returns(<<4, 2, 5, 6>>)}
RerankOutcomes == {"unavailable", "raise", "ascending", "descending"}
RetrievalInputs ==
    [called : {TRUE}, session : Sessions, generated : Generations,
     hits : [Queries -> SearchOutcomes], rerank : RerankOutcomes,
     qa : BOOLEAN]

Prefix(t, n) == SubSeq(t, 1, IF n < Len(t) THEN n ELSE Len(t))
RECURSIVE Reverse(_)
Reverse(t) == IF t = <<>> THEN <<>> ELSE Append(Reverse(Tail(t)), Head(t))

\* LineListOutputParser.parse: the non-empty lines of the model's text
NonEmptyLine(line) == line # ""
LineListOutputParser(lines) == SelectSeq(lines, NonEmptyLine)

\* MultiQueryRetriever.generate_queries: the lines parsed from the answer of
\* the expansion model; its failure is raised.
generate_queries(generated) ==
    IF generated.ok THEN Returns(LineListOutputParser(generated.val))
    ELSE Raised

\* base_retriever: similarity search with search_kwargs={"k": 10}
similarity_search(hits, query) ==
    IF hits[query].ok THEN Returns(Prefix(hits[query].val, search_k))
    ELSE Raised

\* MultiQueryRetriever.retrieve_documents: one search per query, the
\* results concatenated; a failed search is raised.
RECURSIVE retrieve_documents(_, _, _, _)
retrieve_documents(hits, queries, i, acc) ==
    IF i > Len(queries) THEN Returns(acc)
    ELSE LET docs == similarity_search(hits, queries[i])
         IN  IF docs.ok
             THEN retrieve_documents(hits, queries, i + 1, acc \o docs.val)
             ELSE Raised

\* MultiQueryRetriever.unique_union: first occurrences, in order
RECURSIVE unique_union(_, _)
unique_union(documents, acc) ==
    IF documents = <<>> THEN acc
    ELSE unique_union(Tail(documents),
            IF \E k \in 1..Len(acc) : acc[k] = Head(documents) THEN acc
            ELSE Append(acc, Head(documents)))

\* MultiQueryRetriever.from_llm(..., include_original=True): the generated
\* queries, then the original one
MultiQueryRetriever(generated, hits) ==
    LET generation == generate_queries(generated) IN
    IF ~generation.ok THEN Raised
    ELSE LET documents == retrieve_documents(hits,
                              Append(generation.val, Question), 1, <<>>)
         IN  IF documents.ok THEN Returns(unique_union(documents.val, <<>>))
             ELSE Raised

\* FlashrankRerank(top_n=5).compress_documents: the top_n documents by the
\* re-ranker's relevance; its failure is raised.
compress_documents(documents, rerank) ==
    IF rerank = "raise" THEN Raised
    ELSE LET ids == {documents[k] : k \in 1..Len(documents)}
             ranked == IF rerank = "ascending" THEN SortedSeq(ids)
                       ELSE Reverse(SortedSeq(ids))
         IN  Returns(Prefix(ranked, top_n))

\* ContextualCompressionRetriever: the base retriever's documents, compressed
\* when there are any
ContextualCompressionRetriever(generated, hits, rerank) ==
    LET documents == MultiQueryRetriever(generated, hits) IN
    IF ~documents.ok THEN Raised
    ELSE IF documents.val = <<>> THEN Returns(<<>>)
    ELSE compress_documents(documents.val, rerank)

\* run_sync_chain: get_advanced_rag_chain builds the retriever, whose
\* re-ranker loads its model, and chain.invoke retrieves and answers; the
\* result's source_documents.
run_sync_chain(input) ==
    IF input.rerank = "unavailable" THEN Raised
    ELSE LET documents == ContextualCompressionRetriever(
                              input.generated, input.hits, input.rerank)
         IN  IF documents.ok /\ input.qa THEN documents ELSE Raised

\* rag_chat: the response, HTTP 500 for any exception
rag_chat(input) ==
    LET out == run_sync_chain(input) IN
    IF out.ok THEN [status |-> 200, sources |-> out.val]
    ELSE [status |-> 500, sources |-> <<>>]

\* POST /chat: one request, with the session memory it reads and writes.
AdvancedChat ==
    /\ retrIn = NoRequest
    /\ \E input \in RetrievalInputs :
        LET s == input.session
            response == rag_chat(input)
            memories == IF input.rerank = "unavailable" THEN utils_memories
                        ELSE utils_get_memory(utils_memories, s)
            turn == turnSeq["utils"][s] + 1
        IN
        /\ retrIn' = input
        /\ retrOut' = response
        /\ loaded' = load_memory_variables(memories[s])
        /\ IF response.status = 200
           THEN /\ utils_memories' =
                    [memories EXCEPT ![s] = save_context(@, turn)]
                /\ turnSeq' = [turnSeq EXCEPT !["utils"][s] = turn]
                /\ lastOp' = <<"chat", s, s \in clears>>
                /\ clears' = clears \ {s}
                /\ searched' = <<"documents", "documents">>
           ELSE /\ utils_memories' = memories
                /\ lastOp' = <<"chat_fail", s, s \in clears>>
                /\ UNCHANGED <<turnSeq, clears, searched>>
    /\ UNCHANGED <<rag_memories, rag_chains, drive, edits, store, syncVars,
                   obsVars, embedding_cache, cacheObs, chunkVars, sanVars, sse,
                   svcVars>>

NextRetrieve == AdvancedChat
SpecRetrieve == InitNoSync /\ [][NextRetrieve]_vars

\* ---------------------------------------------------------- retrieval claims
\* The queries the request searched with, had the expansion been parsed
Issued ==
    {Question} \cup
    ({retrIn.generated.val[k] : k \in 1..Len(retrIn.generated.val)} \ {""})

\* C17: when the call that generates the alternative phrasings fails while
\* the search with the original query, the re-ranker and the answering
\* model work, the request is answered (200) from the hits of the original
\* query.
C17_ExpansionFailOpen ==
    (/\ retrIn.called /\ ~retrIn.generated.ok
     /\ retrIn.hits[Question].ok
     /\ retrIn.rerank \in {"ascending", "descending"} /\ retrIn.qa)
    => /\ retrOut.status = 200
       /\ \A k \in 1..Len(retrOut.sources) :
            \E h \in 1..Len(retrIn.hits[Question].val) :
                retrOut.sources[k] = retrIn.hits[Question].val[h]

\* C18: when the re-ranker fails or cannot be loaded while the expansion,
\* every search and the answering model work and some search has hits, the
\* request is answered (200) with at least one and at most top_n sources.
C18_RerankDegrades ==
    (/\ retrIn.called /\ retrIn.rerank \in {"unavailable", "raise"}
     /\ retrIn.generated.ok /\ retrIn.qa
     /\ \A query \in Issued : retrIn.hits[query].ok
     /\ \E query \in Issued : retrIn.hits[query].val # <<>>)
    => /\ retrOut.status = 200
       /\ retrOut.sources # <<>> /\ Len(retrOut.sources) <= top_n

\* ------------------------------------------------------ source attribution
\* Strings are sequences of tokens: "http" and "://" are tokens so that a
\* prefix test can tell "http://x" from "httpd.conf".
Document == <<"Document">>
NameValues ==
    {Missing, NotAString, Str(<<>>), Str(<<" ">>),
     Str(<<"http", "://", "x">>), Str(<<"http", "s", "://", "x">>),
     Str(<<"http", "d.conf">>), Str(<<"unknown">>), Str(<<"Unknown">>),
     Str(<<" ", "Report.pdf", " ">>), Str(<<"Report.pdf">>),
     Str(<<"notes.txt">>)}
SourceValues ==
    {Missing, Str(<<"http", "s", "://", "x">>), Str(<<"http", "d.conf">>),
     Str(<<"Report.pdf">>)}
Metadatas ==
    [filename : NameValues, title : NameValues, name : NameValues,
     source : SourceValues]

\* str.startswith and str.lower
startswith(t, prefix) ==
    Len(t) >= Len(prefix) /\ SubSeq(t, 1, Len(prefix)) = prefix
lower(t) ==
    [k \in 1..Len(t) |->
        CASE t[k] = "Unknown" -> "unknown"
          [] t[k] = "Report.pdf" -> "report.pdf"
          [] t[k] = "Document" -> "document"
          [] OTHER -> t[k]]

\* possible_names = [metadata.get("filename"), .get("title"), .get("name")]
possible_names(metadata) == <<metadata.filename, metadata.title, metadata.name>>

\* search.extract_clean_filename: the loop from the i-th name on
RECURSIVE extract_from(_, _)
extract_from(names, i) ==
    IF i > Len(names) THEN Document
    ELSE LET name == names[i] IN
         IF name.str /\ name.val # <<>>
         THEN LET stripped == strip(name.val) IN
              IF \/ startswith(stripped, <<"http", "://">>)
                 \/ startswith(stripped, <<"http", "s", "://">>)
              THEN extract_from(names, i + 1)
              ELSE IF lower(stripped) = <<"unknown">>
              THEN extract_from(names, i + 1)
              ELSE IF stripped # <<>> THEN stripped
              ELSE extract_from(names, i + 1)
         ELSE extract_from(names, i + 1)
extract_clean_filename(metadata) == extract_from(possible_names(metadata), 1)

\* query_with_advanced_memory: the loop that sets clean_name, from the i-th
\* name on
RECURSIVE clean_from(_, _)
clean_from(names, i) ==
    IF i > Len(names) THEN Document
    ELSE LET name == names[i] IN
         IF name.str /\ name.val # <<>>
         THEN LET name_str == strip(name.val) IN
              IF /\ name_str # <<>>
                 /\ ~startswith(name_str, <<"http">>)
                 /\ lower(name_str) # <<"unknown">>
              THEN name_str
              ELSE clean_from(names, i + 1)
         ELSE clean_from(names, i + 1)
clean_name(metadata) == clean_from(possible_names(metadata), 1)

\* metadata.get('source', '')
get_source(metadata) ==
    IF metadata.source = Missing THEN <<>> ELSE metadata.source.val

\* One source of query_with_advanced_memory: metadata['filename'] and
\* metadata['source'] after the sanitization
AttributeSource ==
    /\ sanOut = NoAttribution
    /\ \E metadata \in Metadatas :
        /\ sanIn' = metadata
        /\ sanOut' = [by |-> "query_with_advanced_memory",
                      filename |-> clean_name(metadata),
                      source |-> IF startswith(get_source(metadata), <<"http">>)
                                 THEN Str(clean_name(metadata))
                                 ELSE metadata.source]
    /\ UNCHANGED <<drive, edits, store, syncVars, obsVars, embedding_cache,
                   cacheObs, chatVars, chunkVars, retrVars, sse, svcVars>>

\* One result of POST /search: its filename, the metadata returned as it is
SearchResult ==
    /\ sanOut = NoAttribution
    /\ \E metadata \in Metadatas :
        /\ sanIn' = metadata
        /\ sanOut' = [by |-> "search_vectors",
                      filename |-> extract_clean_filename(metadata),
                      source |-> metadata.source]
    /\ UNCHANGED <<drive, edits, store, syncVars, obsVars, embedding_cache,
                   cacheObs, chatVars, chunkVars, retrVars, sse, svcVars>>

NextSources == AttributeSource \/ SearchResult
SpecSources == InitNoSync /\ [][NextSources]_vars

\* ----------------------------------------------- source attribution claims
\* A URL, and a metadata value that can serve as a name
IsUrl(t) ==
    startswith(t, <<"http", "://">>) \/ startswith(t, <<"http", "s", "://">>)
ValidName(v) ==
    /\ v.str /\ strip(v.val) # <<>>
    /\ ~IsUrl(strip(v.val)) /\ lower(strip(v.val)) # <<"unknown">>
FirstValidName(metadata) ==
    LET names == possible_names(metadata) IN
    IF \E k \in 1..3 : ValidName(names[k])
    THEN strip(names[CHOOSE k \in 1..3 :
                    ValidName(names[k]) /\ \A j \in 1..(k - 1) : ~ValidName(names[j])].val)
    ELSE Document

\* C19: the filename attributed to a source or to a search result is never
\* a URL: it is the first of filename, title and name that is a non-blank
\* string, no URL and not 'unknown', else "Document"; and
\* query_with_advanced_memory replaces a source that is a URL by that name.
C19_CleanFilename ==
    sanOut # NoAttribution =>
        /\ ~IsUrl(sanOut.filename)
        /\ sanOut.filename = FirstValidName(sanIn)
        /\ (/\ sanOut.by = "query_with_advanced_memory"
            /\ IsUrl(get_source(sanIn)))
           => sanOut.source = Str(FirstValidName(sanIn))

\* ------------------------------------------------------ streaming responses
\* generate() of rag_chat_stream and of chat_stream, one step per yield.
Endpoints == {"/chat/stream", "/ai/stream"}
Done == "[DONE]"
Error == "error"
TextEvent == [a |-> "text:a", b |-> "text:b", empty |-> "text:"]

\* The chunks the source of an endpoint can deliver: the chain's astream
\* delivers its result, one chunk with an "answer" that can be empty; the
\* model's response delivers up to MaxStreamChunks chunks whose text can be
\* empty.
ChunkLimit(endpoint) == IF endpoint = "/chat/stream" THEN 1 ELSE MaxStreamChunks
ChunkTextsOf(endpoint) ==
    IF endpoint = "/chat/stream" THEN {"a", "empty"} ELSE {"a", "b", "empty"}

\* What the loop body yields for a chunk: `if "answer" in chunk` in
\* rag_chat_stream, `if chunk.text` in chat_stream
yield_for(endpoint, text) ==
    IF endpoint = "/ai/stream" /\ text = "empty" THEN <<>>
    ELSE <<TextEvent[text]>>

\* The except clause that ends after its error event.
except_clause_NoMarker == <<Error>>
\* except Exception: yield the error event, then "data: [DONE]"
except_clause == <<Error, Done>>

notStream == <<drive, edits, store, syncVars, obsVars, embedding_cache,
               cacheObs, chunkVars, retrVars, sanVars, svcVars>>

\* The StreamingResponse starts to run generate().
OpenStream ==
    /\ sse = NoStream
    /\ \E endpoint \in Endpoints, s \in Sessions :
        sse' = [NoStream EXCEPT !.endpoint = endpoint, !.session = s,
                                !.pc = "try"]
    /\ UNCHANGED <<chatVars, notStream>>

\* The statements of the try block before the loop have run: get_rag_chain
\* and chain.astream, or the genai set-up and chat.send_message.
SetUp ==
    /\ sse.pc = "try"
    /\ sse' = [sse EXCEPT !.pc = "loop"]
    /\ IF sse.endpoint = "/chat/stream"
       THEN LET chain == get_rag_chain(sse.session, "documents") IN
            /\ rag_chains' = rag_chains \cup {chain}
            /\ rag_memories' = IF chain \in rag_chains THEN rag_memories
                               ELSE rag_get_memory(rag_memories, sse.session)
            /\ UNCHANGED <<utils_memories, searched, turnSeq, clears, lastOp,
                           loaded>>
       ELSE UNCHANGED chatVars
    /\ UNCHANGED notStream

\* One iteration of the loop: the next chunk, yielded when it has a text
\* (an "answer"). The chain's chunk is its result: the turn is in its memory.
StreamChunk ==
    /\ sse.pc = "loop" /\ sse.chunks < ChunkLimit(sse.endpoint)
    /\ \E text \in ChunkTextsOf(sse.endpoint) :
        sse' = [sse EXCEPT !.chunks = @ + 1,
                           !.events = @ \o yield_for(sse.endpoint, text)]
    /\ IF sse.endpoint = "/chat/stream"
       THEN LET chain == get_rag_chain(sse.session, "documents")
                turn == turnSeq["rag"][chain.session] + 1
            IN
            /\ searched' = <<"documents", chain.namespace>>
            /\ loaded' = load_memory_variables(rag_memories[chain.session])
            /\ rag_memories' = [rag_memories EXCEPT
                                   ![chain.session] = save_context(@, turn)]
            /\ turnSeq' = [turnSeq EXCEPT !["rag"][chain.session] = turn]
            /\ lastOp' = <<"stream", sse.session, sse.session \in clears>>
            /\ clears' = clears \ {sse.session}
            /\ UNCHANGED <<utils_memories, rag_chains>>
       ELSE UNCHANGED chatVars
    /\ UNCHANGED notStream

\* The source is exhausted: yield "data: [DONE]\n\n" and return.
Exhausted ==
    /\ sse.pc = "loop"
    /\ sse.endpoint = "/chat/stream" => sse.chunks = ChunkLimit(sse.endpoint)
    /\ sse' = [sse EXCEPT !.pc = "closed", !.events = Append(@, Done)]
    /\ UNCHANGED <<chatVars, notStream>>

\* A statement of the try block raises: before the loop, or while the next
\* chunk is awaited or read.
RaiseInTry ==
    /\ sse.pc \in {"try", "loop"}
    /\ sse.pc = "loop" => sse.chunks < ChunkLimit(sse.endpoint)
    /\ sse' = [sse EXCEPT !.pc = "except", !.failed = TRUE]
    /\ UNCHANGED <<chatVars, notStream>>

\* The except clause yields its events one at a time and returns.
ExceptYield ==
    /\ sse.pc \in {"except", "except2"}
    /\ LET k == IF sse.pc = "except" THEN 1 ELSE 2 IN
       sse' = [sse EXCEPT
                !.events = IF k <= Len(except_clause)
                           THEN Append(@, except_clause[k]) ELSE @,
                !.pc = IF k = 1 /\ Len(except_clause) > 1 THEN "except2"
                       ELSE "closed"]
    /\ UNCHANGED <<chatVars, notStream>>

Generate == SetUp \/ StreamChunk \/ Exhausted \/ RaiseInTry \/ ExceptYield
NextStream == OpenStream \/ Generate

\* The server runs the generator of a response to its end.
SpecStream == InitNoSync /\ [][NextStream]_vars /\ WF_vars(Generate)

\* ------------------------------------------------------------ stream claims
Count(events, e) == Cardinality({k \in 1..Len(events) : events[k] = e})

\* C20: every streaming response ends, and when it has ended exactly one
\* end marker was sent and it is the last event; nothing is sent after the
\* marker; when the generation failed, one error event was sent and it is
\* the event before the marker, so that no text event follows it.
C20_StreamEndsWithMarker ==
    /\ (sse.pc # "idle") ~> (sse.pc = "closed")
    /\ [](sse.pc = "closed" =>
            /\ Count(sse.events, Done) = 1
            /\ sse.events[Len(sse.events)] = Done
            /\ sse.failed =>
                /\ Count(sse.events, Error) = 1
                /\ sse.events[Len(sse.events) - 1] = Error
            /\ ~sse.failed => Count(sse.events, Error) = 0)
    /\ [](Count(sse.events, Done) > 0 => sse.pc = "closed")
C20_Witness ==
    /\ sse.pc = "closed" /\ sse.failed /\ sse.endpoint = "/ai/stream"
    /\ sse.events = <<TextEvent["a"], TextEvent["b"], Error, Done>>
\* ------------------------------------------------------------ batch_upsert
\* Everything but the call of batch_upsert
notBatch == <<drive, edits, store, syncVars, obsVars, embedding_cache,
              cacheObs, chatVars, chunkVars, retrVars, sanVars, sse, val,
              raceVars, memoryVars, now, rateVars, oauthVars>>

\* batch_upsert(vectors, namespace) is called with a list of records; the
\* records are told apart by their position in the list.
CallBatchUpsert ==
    /\ bu = NoBatch
    /\ \E n \in 0..MaxRecords :
        bu' = [NoBatch EXCEPT !.pc = "loop", !.vectors = [k \in 1..n |-> k]]
    /\ UNCHANGED notBatch

\* One iteration of `for i in range(0, len(vectors), batch_size)`: the
\* batch is posted; a status other than 200 raises, a 200 has put the
\* records of the batch into the index.
PostBatch ==
    /\ bu.pc = "loop" /\ bu.i < Len(bu.vectors)
    /\ \E ok \in BOOLEAN :
        LET batch == Slice(bu.vectors, bu.i, bu.i + batch_size) IN
        bu' = [bu EXCEPT
                !.posted = Append(@, [records |-> batch, ok |-> ok]),
                !.index = IF ok THEN @ \cup {batch[k] : k \in 1..Len(batch)}
                          ELSE @,
                !.i = IF ok THEN @ + batch_size ELSE @,
                !.pc = IF ok THEN "loop" ELSE "raised"]
    /\ UNCHANGED notBatch

\* The range is exhausted: batch_upsert returns.
ReturnBatch ==
    /\ bu.pc = "loop" /\ bu.i >= Len(bu.vectors)
    /\ bu' = [bu EXCEPT !.pc = "returned"]
    /\ UNCHANGED notBatch

NextBatch == CallBatchUpsert \/ PostBatch \/ ReturnBatch

SpecBatch == InitNoSync /\ [][NextBatch]_vars

\* The records of the batches posted so far, in the order of posting
RECURSIVE Posted(_)
Posted(batches) ==
    IF batches = <<>> THEN <<>>
    ELSE Posted(SubSeq(batches, 1, Len(batches) - 1))
            \o batches[Len(batches)].records

\* C21: the batches posted so far hold, one after the other, the first
\* records of the list in their order, each batch at most batch_size
\* records; only the batch posted last can have failed, and then the call
\* has raised; the records of the batches that succeeded are in the index;
\* a call that returns has posted every record.
C21_BatchesInOrder ==
    LET all == Posted(bu.posted)
        n == Len(bu.posted)
    IN
    /\ Len(all) <= Len(bu.vectors)
    /\ all = SubSeq(bu.vectors, 1, Len(all))
    /\ \A k \in 1..n :
        /\ Len(bu.posted[k].records) \in 1..batch_size
        /\ k < n => bu.posted[k].ok
        /\ bu.posted[k].ok =>
            \A j \in 1..Len(bu.posted[k].records) :
                bu.posted[k].records[j] \in bu.index
    /\ (n > 0 /\ ~bu.posted[n].ok) <=> bu.pc = "raised"
    /\ bu.pc = "returned" => all = bu.vectors
C21_Witness ==
    /\ bu.pc = "raised" /\ Len(bu.posted) = 2
    /\ Len(bu.vectors) > 2 * batch_size
    /\ bu.index = 1..batch_size

\* ------------------------------------------------------ request validation
notValidation == <<drive, edits, store, syncVars, obsVars, embedding_cache,
                   cacheObs, chatVars, chunkVars, retrVars, sanVars, sse, bu,
                   raceVars, memoryVars, now, rateVars, oauthVars>>

ValidatedEndpoints == {"/chat", "/chat/stream", "/upsert", "/delete",
                       "/search", "/ai/embed"}

\* The input of a request is its query, its list of vectors, its list of
\* ids, its embedding or its text: `size` is its length and `blank` the
\* number of leading and trailing whitespace characters of a text.
RequestInputs ==
    {inp \in [size : 0..MaxInput, blank : 0..MaxBlank] : inp.blank <= inp.size}

\* The check at the head of each handler: TRUE when it raises
\* HTTPException(400). rag_chat and rag_chat_stream have none.
rejects(endpoint, inp) ==
    CASE endpoint = "/search" -> inp.size = 0
      [] endpoint = "/upsert" -> inp.size = 0
      [] endpoint = "/delete" -> inp.size = 0
      [] endpoint = "/ai/embed" ->
            inp.size = 0 \/ inp.size - inp.blank < MinTextLen
      [] OTHER -> FALSE

\* The services a handler calls once it is past its check
external_calls(endpoint) ==
    CASE endpoint \in {"/chat", "/chat/stream"} ->
            {"model", "embedding", "store"}
      [] endpoint = "/ai/embed" -> {"embedding"}
      [] OTHER -> {"store"}

\* A request reaches its handler.
Receive ==
    /\ val.pc = "idle"
    /\ \E endpoint \in ValidatedEndpoints, inp \in RequestInputs :
        val' = [NoValidation EXCEPT !.pc = "check", !.endpoint = endpoint,
                                    !.input = inp]
    /\ UNCHANGED notValidation

\* The head of the handler: 400, or on to the body.
Validate ==
    /\ val.pc = "check"
    /\ val' = IF rejects(val.endpoint, val.input)
              THEN [val EXCEPT !.pc = "responded", !.status = 400]
              ELSE [val EXCEPT !.pc = "body"]
    /\ UNCHANGED notValidation

\* The body of the handler: its external calls, which succeed or fail; a
\* failure is answered 500, and in a stream by an error event under 200.
\* /ai/embed answers from its cache without a call when the key is there.
Body ==
    /\ val.pc = "body"
    /\ \E ok \in BOOLEAN, cached \in BOOLEAN :
        /\ cached => val.endpoint = "/ai/embed" /\ ok
        /\ val' = [val EXCEPT
                !.pc = "responded",
                !.calls = IF cached THEN {} ELSE external_calls(val.endpoint),
                !.status = IF ok \/ val.endpoint = "/chat/stream" THEN 200
                           ELSE 500]
    /\ UNCHANGED notValidation

NextValidation == Receive \/ Validate \/ Body

SpecValidation == InitNoSync /\ [][NextValidation]_vars

\* An empty query, list of vectors, list of ids or embedding, or a text of
\* fewer than MinTextLen characters once stripped
Malformed(endpoint, inp) ==
    IF endpoint = "/ai/embed" THEN inp.size - inp.blank < MinTextLen
    ELSE inp.size = 0

\* C22: a malformed request makes no external call, and the response it is
\* given is the validation error.
C22_RejectedBeforeCalls ==
    (val.pc # "idle" /\ Malformed(val.endpoint, val.input)) =>
        /\ val.calls = {}
        /\ val.pc = "responded" => val.status = 400

\* ------------------------------------------- POST /chat on worker threads
notRace == <<drive, edits, store, syncVars, obsVars, embedding_cache,
             cacheObs, chatVars, chunkVars, retrVars, sanVars, sse, bu, val,
             memoryVars, now, rateVars, oauthVars>>

\* query_with_advanced_memory hands run_sync_chain to the executor: a
\* worker thread starts on a request for some session.
Submit(t) ==
    /\ thr[t].pc = "idle"
    /\ \E s \in Sessions :
        thr' = [thr EXCEPT ![t] = [NoThread EXCEPT !.pc = "check",
                                                   !.session = s]]
    /\ UNCHANGED <<session_memories, memory_objects, notRace>>

\* get_memory: `if session_id not in session_memories`
CheckMemory(t) ==
    /\ thr[t].pc = "check"
    /\ thr' = [thr EXCEPT ![t].pc =
                IF session_memories[thr[t].session] = NoObject
                THEN "insert" ELSE "return"]
    /\ UNCHANGED <<session_memories, memory_objects, notRace>>

\* get_memory: session_memories[session_id] =
\* ConversationBufferWindowMemory(...), a new object with no messages
InsertMemory(t) ==
    /\ thr[t].pc = "insert"
    /\ memory_objects' =
        Append(memory_objects, [session |-> thr[t].session, msgs |-> <<>>])
    /\ session_memories' =
        [session_memories EXCEPT ![thr[t].session] = Len(memory_objects) + 1]
    /\ thr' = [thr EXCEPT ![t].pc = "return"]
    /\ UNCHANGED notRace

\* get_memory: `return session_memories[session_id]`; the chain is built
\* over the object returned.
ReturnMemory(t) ==
    /\ thr[t].pc = "return"
    /\ thr' = [thr EXCEPT ![t].pc = "invoke",
                          ![t].memory = session_memories[thr[t].session]]
    /\ UNCHANGED <<session_memories, memory_objects, notRace>>

\* chain.invoke has answered and saves the turn of this request in the
\* chain's memory object.
InvokeChain(t) ==
    /\ thr[t].pc = "invoke"
    /\ memory_objects' =
        [memory_objects EXCEPT ![thr[t].memory].msgs = Append(@, t)]
    /\ thr' = [thr EXCEPT ![t].pc = "done"]
    /\ UNCHANGED <<session_memories, notRace>>

NextRace ==
    \E t \in Threads :
        \/ Submit(t) \/ CheckMemory(t) \/ InsertMemory(t)
        \/ ReturnMemory(t) \/ InvokeChain(t)

SpecRace == InitNoSync /\ [][NextRace]_vars

\* The memory objects ever registered for session s
RegisteredFor(s) ==
    {k \in 1..Len(memory_objects) : memory_objects[k].session = s}

\* C26: once two concurrent /chat requests for one session that had no
\* memory have both completed, one memory object has been registered for
\* the session and the session's history holds the turns of both requests.
C26_OneMemoryPerSession ==
    (\A t \in Threads : thr[t].pc = "done" /\ thr[t].session = thr[1].session)
        => LET s == thr[1].session IN
           /\ Cardinality(RegisteredFor(s)) = 1
           /\ \A t \in Threads :
                \E j \in 1..Len(memory_objects[session_memories[s]].msgs) :
                    memory_objects[session_memories[s]].msgs[j] = t

\* --------------------------------------------------- POST /ai/stream memory
notMemory == <<drive, edits, store, syncVars, obsVars, embedding_cache,
               cacheObs, chatVars, chunkVars, retrVars, sanVars, sse, bu, val,
               raceVars, now, rateVars, oauthVars>>

\* A trim that keeps the oldest messages.
Trim_Oldest(msgs) ==
    IF Len(msgs) > MAX_MEMORY_MESSAGES
    THEN SubSeq(msgs, 1, MAX_MEMORY_MESSAGES) ELSE msgs
\* if len(l) > MAX_MEMORY_MESSAGES: l = l[-MAX_MEMORY_MESSAGES:]
Trim(msgs) ==
    IF Len(msgs) > MAX_MEMORY_MESSAGES
    THEN SubSeq(msgs, Len(msgs) - MAX_MEMORY_MESSAGES + 1, Len(msgs))
    ELSE msgs

\* conversation_memories.get(session_id, [])
memory_of(s) ==
    IF conversation_memories[s].on THEN conversation_memories[s].msgs
    ELSE <<>>

\* POST /ai/stream with n messages: 400 without messages; with a
\* session_id the messages are appended to the session's list, which is
\* then trimmed. A message is told apart by its place among the messages
\* appended to its session.
MemoryStream ==
    /\ \E s \in Sessions \cup {NoSession}, n \in 0..MaxRequestMessages :
        IF n = 0
        THEN /\ memoryOp' = [NoMemoryOp EXCEPT !.op = "stream400",
                                               !.session = s]
             /\ UNCHANGED <<conversation_memories, appended>>
        ELSE IF s = NoSession
        THEN /\ memoryOp' = [NoMemoryOp EXCEPT !.op = "stream", !.session = s]
             /\ UNCHANGED <<conversation_memories, appended>>
        ELSE /\ Len(appended[s]) + n <= MaxAppended
             /\ LET new == [k \in 1..n |-> Len(appended[s]) + k] IN
                /\ appended' = [appended EXCEPT ![s] = @ \o new]
                /\ conversation_memories' =
                    [conversation_memories EXCEPT ![s] =
                        [on |-> TRUE, msgs |-> Trim(memory_of(s) \o new)]]
             /\ memoryOp' = [NoMemoryOp EXCEPT !.op = "stream", !.session = s]
    /\ UNCHANGED notMemory

\* GET /memory/{session_id}
MemoryGet ==
    /\ \E s \in Sessions :
        memoryOp' = [op |-> "get", session |-> s, messages |-> memory_of(s)]
    /\ UNCHANGED <<conversation_memories, appended, notMemory>>

\* DELETE /memory/{session_id}
MemoryClear ==
    /\ \E s \in Sessions :
        /\ conversation_memories' = [conversation_memories EXCEPT ![s] = Absent]
        /\ appended' = [appended EXCEPT ![s] = <<>>]
        /\ memoryOp' = [NoMemoryOp EXCEPT !.op = "clear", !.session = s]
    /\ UNCHANGED notMemory

NextMemory == MemoryStream \/ MemoryGet \/ MemoryClear

SpecMemory == InitNoSync /\ [][NextMemory]_vars

\* C28: the list stored for a session holds at most MAX_MEMORY_MESSAGES
\* messages, and they are the messages appended to the session last, in
\* the order they were appended; after DELETE /memory the session is not
\* stored, and GET /memory of a session to which nothing was appended since
\* returns no messages.
C28_LastMessagesKept ==
    /\ \A s \in Sessions :
        LET n == Len(appended[s])
            kept == IF n > MAX_MEMORY_MESSAGES THEN MAX_MEMORY_MESSAGES ELSE n
        IN
        /\ conversation_memories[s].on <=> n > 0
        /\ Len(conversation_memories[s].msgs) = kept
        /\ conversation_memories[s].msgs = [k \in 1..kept |-> n - kept + k]
    /\ memoryOp.op = "clear" => ~conversation_memories[memoryOp.session].on
    /\ (memoryOp.op = "get" /\ appended[memoryOp.session] = <<>>)
            => memoryOp.messages = <<>>
C28_Witness ==
    /\ memoryOp.op = "stream" /\ memoryOp.session = "s"
    /\ Len(appended["s"]) = MAX_MEMORY_MESSAGES + 2
    /\ Len(conversation_memories["s"].msgs) = MAX_MEMORY_MESSAGES
    /\ conversation_memories["s"].msgs[1] = 3

\* -------------------------------------------------- rate_limit_middleware
notRate == <<drive, edits, store, syncVars, obsVars, embedding_cache,
             cacheObs, chatVars, chunkVars, retrVars, sanVars, sse, bu, val,
             raceVars, memoryVars, oauthVars>>

\* Time passes: up to the last second of a window that began at the last
\* move of the clock but one, then one second more.
Tick ==
    /\ now' = now + (IF now % (RATE_LIMIT_WINDOW + 1) = 0
                     THEN RATE_LIMIT_WINDOW ELSE 1)
    /\ now' <= MaxNow
    /\ UNCHANGED <<rateVars, oauthVars, notRate>>

\* A test that lets one request more through.
limit_reached_Late(requests) == requests > RATE_LIMIT_MAX
\* elif requests >= RATE_LIMIT_MAX
limit_reached(requests) == requests >= RATE_LIMIT_MAX

\* if current_time - window_start > RATE_LIMIT_WINDOW
window_expired(current_time, window_start) ==
    current_time - window_start > RATE_LIMIT_WINDOW

\* What rate_limit_middleware does with a request of client_ip at
\* current_time: the entry it leaves in rate_limit_store and its answer,
\* 429 or what call_next returns.
rate_limit_middleware(client_ip, current_time) ==
    LET entry == rate_limit_store[client_ip] IN
    IF entry = NoWindow
    THEN [entry |-> <<1, current_time>>, status |-> 200]
    ELSE IF window_expired(current_time, entry[2])
    THEN [entry |-> <<1, current_time>>, status |-> 200]
    ELSE IF limit_reached(entry[1])
    THEN [entry |-> entry, status |-> 429]
    ELSE [entry |-> <<entry[1] + 1, entry[2]>>, status |-> 200]

\* A request of an ip arrives. `through` follows the ip's window by the
\* requests themselves: a window begins with the first request and with
\* the first request more than RATE_LIMIT_WINDOW seconds after the
\* window's first one; it calls for 429 once RATE_LIMIT_MAX requests of
\* the window were let through.
Request ==
    /\ \E ip \in IPs :
        LET r == rate_limit_middleware(ip, now)
            g == through[ip]
            begins == g.passed = 0 \/ now - g.start > RATE_LIMIT_WINDOW
            before == IF begins THEN 0 ELSE g.passed
            expected == IF before >= RATE_LIMIT_MAX THEN 429 ELSE 200
        IN
        /\ ip # "a" => rate_limit_store[ip][1] < MaxOtherRequests
        /\ rate_limit_store' = [rate_limit_store EXCEPT ![ip] = r.entry]
        /\ through' = [through EXCEPT ![ip] =
                [start |-> IF begins THEN now ELSE g.start,
                 passed |-> before + (IF r.status = 200 THEN 1 ELSE 0),
                 got |-> r.status,
                 expected |-> expected]]
    /\ UNCHANGED <<now, oauthVars, notRate>>

NextRate == Tick \/ Request

SpecRate == InitNoSync /\ [][NextRate]_vars

\* C29: in the window of an ip at most RATE_LIMIT_MAX requests are let
\* through; a request is answered 429 exactly when the window of its own ip
\* has let RATE_LIMIT_MAX through already; the entry of an ip holds the
\* requests let through in its window and the time of the window's first
\* request, so that a new window begins with the count 1; a request
\* changes the entry of its own ip only.
C29_WindowLimit ==
    /\ [](\A ip \in IPs :
            /\ through[ip].passed <= RATE_LIMIT_MAX
            /\ through[ip].got = through[ip].expected
            /\ through[ip].passed > 0 =>
                rate_limit_store[ip] = <<through[ip].passed, through[ip].start>>)
    /\ [][\A ip \in IPs :
            rate_limit_store'[ip] # rate_limit_store[ip]
                => through'[ip].passed # through[ip].passed
                    \/ through'[ip].start # through[ip].start]_vars
C29_Witness ==
    /\ now = RATE_LIMIT_WINDOW
    /\ through["a"].got = 429 /\ through["a"].passed = RATE_LIMIT_MAX
    /\ through["a"].start = 0
    /\ through["b"].got = 200 /\ through["b"].start = RATE_LIMIT_WINDOW

\* ---------------------------------------------------------- OAuth states
notOAuth == <<drive, edits, store, syncVars, obsVars, embedding_cache,
              cacheObs, chatVars, chunkVars, retrVars, sanVars, sse, bu, val,
              raceVars, memoryVars, rateVars>>

\* Time passes: up to the last second of the ten minutes that began at
\* the last move of the clock but one, then one second more.
Wait ==
    /\ now' = now + (IF now % (STATE_TTL + 1) = 0 THEN STATE_TTL ELSE 1)
    /\ now' <= MaxOAuthNow
    /\ UNCHANGED <<oauthVars, rateVars, notOAuth>>

\* cleanup_expired_states(): the store without the states whose created_at
\* is before the cutoff
cleanup_expired_states(pending_store, current) ==
    [st \in States |->
        IF pending_store[st] # NoPending
           /\ pending_store[st].created_at < current - STATE_TTL
        THEN NoPending ELSE pending_store[st]]

\* POST /oauth/init
oauth_init ==
    /\ \E st \in States, v \in Verifiers :
        /\ oauth_pending_store' =
            [cleanup_expired_states(oauth_pending_store, now) EXCEPT
                ![st] = [code_verifier |-> v, created_at |-> now]]
        /\ callbacks' = [callbacks EXCEPT
                !.issued[st] = [on |-> TRUE, at |-> now, code_verifier |-> v]]
    /\ UNCHANGED <<now, rateVars, notOAuth>>

\* GET /oauth/callback: oauth_pending_store.pop(state, None); without a
\* pending entry the redirect carries error=invalid_state, with one the
\* code is exchanged with the entry's code_verifier, which succeeds or
\* fails. `callbacks` notes what was due: the exchange for a state that
\* /oauth/init issued at most STATE_TTL seconds ago and that no callback
\* has used, invalid_state otherwise.
oauth_callback ==
    /\ \E st \in States, exchanged \in BOOLEAN :
        LET pending == oauth_pending_store[st]
            i == callbacks.issued[st]
            due == i.on /\ now - i.at <= STATE_TTL
        IN
        /\ oauth_pending_store' = [oauth_pending_store EXCEPT ![st] = NoPending]
        /\ callbacks' = [callbacks EXCEPT
                !.issued[st].on = FALSE,
                !.state = st,
                !.got = IF pending = NoPending THEN "invalid_state"
                        ELSE IF exchanged THEN "access_token"
                        ELSE "token_exchange_failed",
                !.code_verifier = pending.code_verifier,
                !.expected = IF due THEN "exchange" ELSE "invalid_state"]
    /\ UNCHANGED <<now, rateVars, notOAuth>>

NextOAuth == Wait \/ oauth_init \/ oauth_callback

SpecOAuth == InitNoSync /\ [][NextOAuth]_vars

\* C30: a callback goes on to the token exchange exactly when its state
\* was stored by /oauth/init at most ten minutes before, and not used by a
\* callback since; every other callback is answered invalid_state.
C30_StateOnceAndFresh ==
    callbacks.state # "none" =>
        (callbacks.got = "invalid_state" <=> callbacks.expected = "invalid_state")

====
